---- MODULE Spec2Model ----
(***************************************************************************)
(* Model of the six domain services of the payroll backend (Organization,  *)
(* Payroll, Division, Job, Bank, Employee) over their repositories.        *)
(* Every service method is an operator computed from the current stores    *)
(* and the request, returning the result and the store it leaves behind;   *)
(* every action applies one service method to one request.                 *)
(***************************************************************************)
EXTENDS Integers, Sequences, FiniteSets, TLC

(* Bounds: how many identifiers each service may issue, and the calendar.  *)
MaxOrganizations == 2
MaxPayrolls == 2
MaxDivisions == 2
MaxJobs == 1
MaxBanks == 1
MaxEmployees == 1
MaxDate == 2
(* An update request supplies at most MaxUpdateFields fields (two where    *)
(* the fields are validated against each other); a create request for an   *)
(* employee departs from the plain one in at most MaxDeviations of its     *)
(* texts and hours.                                                        *)
MaxUpdateFields == 1
MaxDeviations == 1
MaxVariety == 1
MaxDown == 1

VARIABLES organizations, payrolls, divisions, jobs, banks, employees, issued, last, pending, down

vars == <<organizations, payrolls, divisions, jobs, banks, employees, issued, last, pending,
          down>>

(* Identifiers a request may carry; an identifier not yet issued, or       *)
(* deleted, is one that resolves to nothing.                               *)
OrganizationIds == 1..MaxOrganizations
PayrollIds == 1..MaxPayrolls
DivisionIds == 1..MaxDivisions
JobIds == 1..MaxJobs
BankIds == 1..MaxBanks
EmployeeIds == 1..MaxEmployees
Dates == 1..MaxDate

(* Option<T>: None is the empty tuple, Some(x) the one-element tuple.      *)
None == <<>>
Some(x) == <<x>>
IsSome(o) == o # <<>>
IsNone(o) == o = <<>>
Unwrap(o) == o[1]
UnwrapOr(o, d) == IF o = <<>> THEN d ELSE o[1]
Opt(S) == {None} \cup {Some(x) : x \in S}

(* AppResult<T>: Ok(value) or an AppError of some kind with its message   *)
(* (identifiers in a message are left out).                                *)
Ok(v) == [kind |-> "ok", val |-> v]
Err(k, message) == [kind |-> k, msg |-> message]
Validation(message) == Err("validation", message)
NotFound(message) == Err("not_found", message)
Database(message) == Err("database", message)
IsOk(r) == r.kind = "ok"

(* The result of a service call together with the store it leaves.         *)
Done(r, s) == [res |-> r, store |-> s]

(* A call to a repository whose database does not answer returns an error  *)
(* and reaches no stored row: a read gives the error in place of what it   *)
(* read, a write gives it and leaves the store as it was.                  *)
Fails(repository) == repository \in down

Read(repository, value) ==
    IF Fails(repository) THEN Database("database error") ELSE Ok(value)

Written(repository, value, before, after) ==
    IF Fails(repository) THEN Done(Database("database error"), before)
    ELSE Done(Ok(value), after)

(* Text is a tuple of characters; str::trim strips the blanks at both ends. *)
IsWhitespace(c) == c = " "

RECURSIVE TrimStart(_)
TrimStart(s) == IF s # <<>> /\ IsWhitespace(Head(s)) THEN TrimStart(Tail(s)) ELSE s

RECURSIVE TrimEnd(_)
TrimEnd(s) == IF s # <<>> /\ IsWhitespace(s[Len(s)]) THEN TrimEnd(SubSeq(s, 1, Len(s) - 1)) ELSE s

Trim(s) == TrimEnd(TrimStart(s))

(* Request texts: names normalise to "a" or "b", other texts to "a".       *)
NameInputs == { <<>>, <<" ">>, <<"a">>, <<" ", "b", " ">> }
TextInputs == { <<" ", " ">>, <<" ", "a">> }

(* What the caller sees of a result: of a create, of a get or update      *)
(* (Option), of a delete (bool).                                           *)
OutcomeCreate(r) == IF r.kind # "ok" THEN r.kind ELSE "created"
OutcomeOpt(r) == IF r.kind # "ok" THEN r.kind ELSE IF r.val = None THEN "none" ELSE "some"
OutcomeBool(r) == IF r.kind # "ok" THEN r.kind ELSE IF r.val THEN "true" ELSE "false"

(* Option::map(normalize).transpose()?: normalise a field only if supplied. *)
NormalizeOpt(field, Normalize(_)) ==
    IF IsSome(field) THEN Normalize(Unwrap(field)) ELSE Ok(<<>>)

Transposed(field, normalized) == IF IsSome(field) THEN Some(normalized.val) ELSE None

(***************************************************************************)
(* Organization                                                            *)
(***************************************************************************)
OrganizationRepoInsert(id, name) == (id :> [id |-> id, name |-> name]) @@ organizations

OrganizationRepoFetch(id) ==
    IF id \in DOMAIN organizations THEN Some(organizations[id]) ELSE None

(* update that stores an organization under an id that had none.          *)
OrganizationRepoUpdate_Upsert(id, name) ==
    IF id \in DOMAIN organizations
    THEN [organizations EXCEPT ![id].name = UnwrapOr(name, @)]
    ELSE (id :> [id |-> id, name |-> UnwrapOr(name, <<>>)]) @@ organizations

OrganizationRepoUpdate(id, name) ==
    IF id \in DOMAIN organizations
    THEN [organizations EXCEPT ![id].name = UnwrapOr(name, @)]
    ELSE organizations

OrganizationRepoDelete_Clear(id) ==
    IF id \in DOMAIN organizations THEN [i \in {} |-> 0] ELSE organizations

OrganizationRepoDelete(id) ==
    [i \in DOMAIN organizations \ {id} |-> organizations[i]]

OrganizationNormalizeName(value) ==
    IF Trim(value) = <<>> THEN Validation("organization name cannot be empty") ELSE Ok(Trim(value))

(* create that stores the name as it was given.                            *)
OrganizationCreate_AsGiven(id, params) ==
    LET name == OrganizationNormalizeName(params.name) IN
    IF ~IsOk(name) THEN Done(name, organizations)
    ELSE LET store == OrganizationRepoInsert(id, params.name) IN
         Done(Ok(store[id]), store)

OrganizationCreate(id, params) ==
    LET name == OrganizationNormalizeName(params.name) IN
    IF ~IsOk(name) THEN Done(name, organizations)
    ELSE LET store == OrganizationRepoInsert(id, name.val) IN
         Written("organization", store[id], organizations, store)

OrganizationGet(id) == Read("organization", OrganizationRepoFetch(id))

(* update without the check that a field is supplied.                      *)
OrganizationUpdate_Unchecked(id, params) ==
    LET name == NormalizeOpt(params.name, OrganizationNormalizeName) IN
    IF ~IsOk(name) THEN Done(name, organizations)
    ELSE LET store == OrganizationRepoUpdate(id, Transposed(params.name, name)) IN
         Done(Ok(IF id \in DOMAIN store THEN Some(store[id]) ELSE None), store)

OrganizationUpdate(id, params) ==
    IF IsNone(params.name) THEN Done(Validation("no fields supplied for update"), organizations)
    ELSE LET name == OrganizationNormalizeName(Unwrap(params.name)) IN
         IF ~IsOk(name) THEN Done(name, organizations)
         ELSE LET store == OrganizationRepoUpdate(id, Some(name.val)) IN
              Written("organization", IF id \in DOMAIN store THEN Some(store[id]) ELSE None,
                      organizations, store)

OrganizationDelete(id) ==
    Written("organization", id \in DOMAIN organizations, organizations,
            OrganizationRepoDelete(id))

(***************************************************************************)
(* Payroll                                                                 *)
(***************************************************************************)
PayrollRepoInsert_Checked(id, name, description, organization_id) ==
    IF organization_id \in DOMAIN organizations
    THEN (id :> [id |-> id, name |-> name, description |-> description,
                 organization_id |-> organization_id]) @@ payrolls
    ELSE payrolls

PayrollRepoInsert(id, name, description, organization_id) ==
    (id :> [id |-> id, name |-> name, description |-> description,
            organization_id |-> organization_id]) @@ payrolls

PayrollRepoFetch(id) == IF id \in DOMAIN payrolls THEN Some(payrolls[id]) ELSE None

PayrollRepoUpdate(id, name, description) ==
    IF id \in DOMAIN payrolls
    THEN [payrolls EXCEPT ![id].name = UnwrapOr(name, @),
                          ![id].description = UnwrapOr(description, @)]
    ELSE payrolls

PayrollRepoDelete(id) == [i \in DOMAIN payrolls \ {id} |-> payrolls[i]]

PayrollNormalizeName(value) ==
    IF Trim(value) = <<>> THEN Validation("payroll name cannot be empty") ELSE Ok(Trim(value))

PayrollNormalizeDescription(value) ==
    IF Trim(value) = <<>> THEN Validation("payroll description cannot be empty") ELSE Ok(Trim(value))

PayrollEnsureOrganizationExists(organization_id) ==
    LET found == OrganizationGet(organization_id) IN
    IF ~IsOk(found) THEN found
    ELSE IF IsSome(found.val) THEN Ok(TRUE) ELSE NotFound("organization not found")

PayrollCreate(id, organization_id, params) ==
    LET name == PayrollNormalizeName(params.name)
        description == PayrollNormalizeDescription(params.description)
        exists == PayrollEnsureOrganizationExists(organization_id)
    IN  IF ~IsOk(name) THEN Done(name, payrolls)
        ELSE IF ~IsOk(description) THEN Done(description, payrolls)
        ELSE IF ~IsOk(exists) THEN Done(exists, payrolls)
        ELSE LET store == PayrollRepoInsert(id, name.val, description.val, organization_id) IN
             Written("payroll", store[id], payrolls, store)

PayrollGet(organization_id, payroll_id) ==
    LET payroll == Read("payroll", PayrollRepoFetch(payroll_id)) IN
    IF ~IsOk(payroll) THEN payroll
    ELSE Ok(IF IsSome(payroll.val) /\ Unwrap(payroll.val).organization_id = organization_id
            THEN payroll.val ELSE None)

PayrollUpdate(organization_id, payroll_id, params) ==
    IF IsNone(params.name) /\ IsNone(params.description) THEN Done(Validation("no fields supplied for update"), payrolls)
    ELSE LET found == PayrollGet(organization_id, payroll_id) IN
    IF ~IsOk(found) THEN Done(found, payrolls)
    ELSE IF IsNone(found.val) THEN Done(Ok(None), payrolls)
    ELSE LET name == IF IsSome(params.name)
                     THEN PayrollNormalizeName(Unwrap(params.name)) ELSE Ok(<<>>)
             description == IF IsSome(params.description)
                            THEN PayrollNormalizeDescription(Unwrap(params.description))
                            ELSE Ok(<<>>)
         IN  IF ~IsOk(name) THEN Done(name, payrolls)
             ELSE IF ~IsOk(description) THEN Done(description, payrolls)
             ELSE LET store == PayrollRepoUpdate(
                                   payroll_id,
                                   IF IsSome(params.name) THEN Some(name.val) ELSE None,
                                   IF IsSome(params.description) THEN Some(description.val) ELSE None)
                  IN  Written("payroll",
                              IF payroll_id \in DOMAIN store THEN Some(store[payroll_id]) ELSE None,
                              payrolls, store)

PayrollDelete(organization_id, payroll_id) ==
    LET found == PayrollGet(organization_id, payroll_id) IN
    IF ~IsOk(found) THEN Done(found, payrolls)
    ELSE IF IsNone(found.val) THEN Done(Ok(FALSE), payrolls)
    ELSE Written("payroll", payroll_id \in DOMAIN payrolls, payrolls,
                 PayrollRepoDelete(payroll_id))

(* ensure_belongs_to_organization taking a get that fails for a payroll    *)
(* that is not there.                                                      *)
PayrollEnsureBelongsToOrganization_Swallowing(organization_id, payroll_id) ==
    LET found == PayrollGet(organization_id, payroll_id) IN
    IF IsOk(found) /\ IsSome(found.val) THEN Ok(TRUE)
    ELSE NotFound("payroll not found for organization")

PayrollEnsureBelongsToOrganization(organization_id, payroll_id) ==
    LET found == PayrollGet(organization_id, payroll_id) IN
    IF ~IsOk(found) THEN found
    ELSE IF IsSome(found.val) THEN Ok(TRUE)
    ELSE NotFound("payroll not found for organization")

(***************************************************************************)
(* Division                                                                *)
(***************************************************************************)
DivisionRepoInsert(id, name, description, budget_code, payroll_id, parent_division_id) ==
    (id :> [id |-> id, name |-> name, description |-> description,
            budget_code |-> budget_code, payroll_id |-> payroll_id,
            parent_division_id |-> parent_division_id]) @@ divisions

DivisionRepoFetch(id) == IF id \in DOMAIN divisions THEN Some(divisions[id]) ELSE None

(* The repository contract the service is written against takes the        *)
(* payroll id with the other optional fields; each supplied field replaces *)
(* the stored one.                                                         *)
DivisionRepoUpdate(id, name, description, budget_code, payroll_id, parent_division_id) ==
    IF id \in DOMAIN divisions
    THEN [divisions EXCEPT ![id].name = UnwrapOr(name, @),
                           ![id].description = UnwrapOr(description, @),
                           ![id].budget_code = UnwrapOr(budget_code, @),
                           ![id].payroll_id = UnwrapOr(payroll_id, @),
                           ![id].parent_division_id = UnwrapOr(parent_division_id, @)]
    ELSE divisions

DivisionRepoDelete(id) == [i \in DOMAIN divisions \ {id} |-> divisions[i]]

DivisionNormalizeField(value, field) ==
    IF Trim(value) = <<>> THEN Validation(field \o " cannot be empty") ELSE Ok(Trim(value))

(* payroll_service.get is called with the payroll id alone.                *)
DivisionEnsurePayrollExists(payroll_id) ==
    LET found == Read("payroll", PayrollRepoFetch(payroll_id)) IN
    IF ~IsOk(found) THEN found
    ELSE IF IsSome(found.val) THEN Ok(TRUE) ELSE NotFound("payroll not found")

(* validate_parent without the comparison against the division's own id.   *)
DivisionValidateParent_NoSelfCheck(parent_division_id, target_payroll_id, division_id) ==
    IF IsNone(parent_division_id) THEN Ok(None)
    ELSE LET parent == DivisionRepoFetch(Unwrap(parent_division_id)) IN
         IF IsNone(parent) THEN NotFound("parent division not found")
         ELSE IF IsSome(target_payroll_id)
                 /\ Unwrap(parent).payroll_id # Unwrap(target_payroll_id)
              THEN Validation("parent division must belong to the same payroll")
         ELSE Ok(parent_division_id)

(* validate_parent without the comparison of the parent's payroll.         *)
DivisionValidateParent_AnyPayroll(parent_division_id, target_payroll_id, division_id) ==
    IF IsNone(parent_division_id) THEN Ok(None)
    ELSE IF parent_division_id = division_id
         THEN Validation("division cannot be its own parent")
    ELSE LET parent == DivisionRepoFetch(Unwrap(parent_division_id)) IN
         IF IsNone(parent) THEN NotFound("parent division not found")
         ELSE Ok(parent_division_id)

DivisionValidateParent(parent_division_id, target_payroll_id, division_id) ==
    IF IsNone(parent_division_id) THEN Ok(None)
    ELSE IF parent_division_id = division_id
         THEN Validation("division cannot be its own parent")
    ELSE LET parent == Read("division", DivisionRepoFetch(Unwrap(parent_division_id))) IN
         IF ~IsOk(parent) THEN parent
         ELSE IF IsNone(parent.val) THEN NotFound("parent division not found")
         ELSE IF IsSome(target_payroll_id)
                 /\ Unwrap(parent.val).payroll_id # Unwrap(target_payroll_id)
              THEN Validation("parent division must belong to the same payroll")
         ELSE Ok(parent_division_id)

DivisionCreate(id, params) ==
    LET name == DivisionNormalizeField(params.name, "division name")
        description == DivisionNormalizeField(params.description, "division description")
        budget_code == DivisionNormalizeField(params.budget_code, "division budget code")
        exists == DivisionEnsurePayrollExists(params.payroll_id)
        parent == DivisionValidateParent(params.parent_division_id,
                                         Some(params.payroll_id), None)
    IN  IF ~IsOk(name) THEN Done(name, divisions)
        ELSE IF ~IsOk(description) THEN Done(description, divisions)
        ELSE IF ~IsOk(budget_code) THEN Done(budget_code, divisions)
        ELSE IF ~IsOk(exists) THEN Done(exists, divisions)
        ELSE IF ~IsOk(parent) THEN Done(parent, divisions)
        ELSE LET store == DivisionRepoInsert(id, name.val, description.val,
                                             budget_code.val, params.payroll_id, parent.val)
             IN  Written("division", store[id], divisions, store)

(* get takes the division id and nothing else.                             *)
DivisionGet(id) == Read("division", DivisionRepoFetch(id))

DivisionUpdate(id, params) ==
    IF /\ IsNone(params.name)
       /\ IsNone(params.description)
       /\ IsNone(params.budget_code)
       /\ IsNone(params.payroll_id)
       /\ IsNone(params.parent_division_id)
    THEN Done(Validation("no fields supplied for update"), divisions)
    ELSE LET fetched == Read("division", DivisionRepoFetch(id)) IN
    IF ~IsOk(fetched) THEN Done(fetched, divisions)
    ELSE IF IsNone(fetched.val) THEN Done(Ok(None), divisions)
    ELSE
    LET existing == Unwrap(fetched.val)
        exists == IF IsSome(params.payroll_id)
                  THEN DivisionEnsurePayrollExists(Unwrap(params.payroll_id))
                  ELSE Ok(TRUE)
        target_payroll_id == UnwrapOr(params.payroll_id, existing.payroll_id)
        current == IF /\ IsNone(params.parent_division_id)
                      /\ IsSome(params.payroll_id)
                      /\ IsSome(existing.parent_division_id)
                   THEN DivisionValidateParent(existing.parent_division_id,
                                               Some(target_payroll_id), Some(id))
                   ELSE Ok(None)
        parent == IF IsSome(params.parent_division_id)
                  THEN DivisionValidateParent(Unwrap(params.parent_division_id),
                                              Some(target_payroll_id), Some(id))
                  ELSE Ok(None)
        name == NormalizeOpt(params.name, LAMBDA v : DivisionNormalizeField(v, "division name"))
        description == NormalizeOpt(params.description,
                                   LAMBDA v : DivisionNormalizeField(v, "division description"))
        budget_code == NormalizeOpt(params.budget_code,
                                   LAMBDA v : DivisionNormalizeField(v, "division budget code"))
    IN  IF ~IsOk(exists) THEN Done(exists, divisions)
        ELSE IF ~IsOk(current) THEN Done(current, divisions)
        ELSE IF ~IsOk(parent) THEN Done(parent, divisions)
        ELSE IF ~IsOk(name) THEN Done(name, divisions)
        ELSE IF ~IsOk(description) THEN Done(description, divisions)
        ELSE IF ~IsOk(budget_code) THEN Done(budget_code, divisions)
        ELSE LET store == DivisionRepoUpdate(
                              id,
                              Transposed(params.name, name),
                              Transposed(params.description, description),
                              Transposed(params.budget_code, budget_code),
                              params.payroll_id,
                              Transposed(params.parent_division_id, parent))
             IN  Written("division", IF id \in DOMAIN store THEN Some(store[id]) ELSE None,
                         divisions, store)

DivisionDelete(id) ==
    Written("division", id \in DOMAIN divisions, divisions, DivisionRepoDelete(id))

(***************************************************************************)
(* Job                                                                     *)
(***************************************************************************)
JobRepoInsert(id, job_title, salary, payroll_id) ==
    (id :> [id |-> id, job_title |-> job_title, salary |-> salary,
            payroll_id |-> payroll_id]) @@ jobs

JobRepoFetch(id) == IF id \in DOMAIN jobs THEN Some(jobs[id]) ELSE None

JobRepoUpdate(id, job_title, salary) ==
    IF id \in DOMAIN jobs
    THEN [jobs EXCEPT ![id].job_title = UnwrapOr(job_title, @),
                      ![id].salary = UnwrapOr(salary, @)]
    ELSE jobs

JobRepoDelete(id) == [i \in DOMAIN jobs \ {id} |-> jobs[i]]

JobEnsurePayrollAccessible(organization_id, payroll_id) ==
    PayrollEnsureBelongsToOrganization(organization_id, payroll_id)

JobNormalizeTitle(value) ==
    IF Trim(value) = <<>> THEN Validation("job title cannot be empty") ELSE Ok(Trim(value))

JobValidateSalary_NonNegative(value) ==
    IF value < 0 THEN Validation("salary must be greater than zero") ELSE Ok(value)

JobValidateSalary(value) ==
    IF value <= 0 THEN Validation("salary must be greater than zero") ELSE Ok(value)

(* create that validates the request before it checks the payroll.        *)
JobCreate_ValidatesFirst(id, organization_id, payroll_id, params) ==
    LET accessible == JobEnsurePayrollAccessible(organization_id, payroll_id)
        job_title == JobNormalizeTitle(params.job_title)
        salary == JobValidateSalary(params.salary)
    IN  IF ~IsOk(job_title) THEN Done(job_title, jobs)
        ELSE IF ~IsOk(salary) THEN Done(salary, jobs)
        ELSE IF ~IsOk(accessible) THEN Done(accessible, jobs)
        ELSE LET store == JobRepoInsert(id, job_title.val, salary.val, payroll_id) IN
             Done(Ok(store[id]), store)

JobCreate(id, organization_id, payroll_id, params) ==
    LET accessible == JobEnsurePayrollAccessible(organization_id, payroll_id)
        job_title == JobNormalizeTitle(params.job_title)
        salary == JobValidateSalary(params.salary)
    IN  IF ~IsOk(accessible) THEN Done(accessible, jobs)
        ELSE IF ~IsOk(job_title) THEN Done(job_title, jobs)
        ELSE IF ~IsOk(salary) THEN Done(salary, jobs)
        ELSE LET store == JobRepoInsert(id, job_title.val, salary.val, payroll_id) IN
             Written("job", store[id], jobs, store)

JobGet(organization_id, payroll_id, job_id) ==
    LET accessible == JobEnsurePayrollAccessible(organization_id, payroll_id)
        job == Read("job", JobRepoFetch(job_id))
    IN  IF ~IsOk(accessible) THEN accessible
        ELSE IF ~IsOk(job) THEN job
        ELSE Ok(IF IsSome(job.val) /\ Unwrap(job.val).payroll_id = payroll_id
                THEN job.val ELSE None)

JobUpdate(organization_id, payroll_id, job_id, params) ==
    IF IsNone(params.job_title) /\ IsNone(params.salary) THEN Done(Validation("no fields supplied for update"), jobs)
    ELSE LET found == JobGet(organization_id, payroll_id, job_id) IN
    IF ~IsOk(found) THEN Done(found, jobs)
    ELSE IF IsNone(found.val) THEN Done(Ok(None), jobs)
    ELSE LET job_title == NormalizeOpt(params.job_title, JobNormalizeTitle)
             salary == NormalizeOpt(params.salary, JobValidateSalary)
         IN  IF ~IsOk(job_title) THEN Done(job_title, jobs)
             ELSE IF ~IsOk(salary) THEN Done(salary, jobs)
             ELSE LET store == JobRepoUpdate(job_id,
                                             Transposed(params.job_title, job_title),
                                             Transposed(params.salary, salary))
                  IN  Written("job",
                              IF job_id \in DOMAIN store THEN Some(store[job_id]) ELSE None,
                              jobs, store)

JobDelete(organization_id, payroll_id, job_id) ==
    LET found == JobGet(organization_id, payroll_id, job_id) IN
    IF ~IsOk(found) THEN Done(found, jobs)
    ELSE IF IsNone(found.val) THEN Done(Ok(FALSE), jobs)
    ELSE Written("job", job_id \in DOMAIN jobs, jobs, JobRepoDelete(job_id))

(***************************************************************************)
(* Bank                                                                    *)
(***************************************************************************)
BankRepoInsert(id, name, organization_id) ==
    (id :> [id |-> id, name |-> name, organization_id |-> organization_id]) @@ banks

BankRepoFetch(id) == IF id \in DOMAIN banks THEN Some(banks[id]) ELSE None

BankRepoUpdate(id, name) ==
    IF id \in DOMAIN banks
    THEN [banks EXCEPT ![id].name = UnwrapOr(name, @)]
    ELSE banks

BankRepoDelete(id) == [i \in DOMAIN banks \ {id} |-> banks[i]]

BankNormalizeName(value) ==
    IF Trim(value) = <<>> THEN Validation("bank name cannot be empty") ELSE Ok(Trim(value))

BankEnsureOrganizationExists_Unchecked(organization_id) == Ok(TRUE)

BankEnsureOrganizationExists(organization_id) ==
    LET found == OrganizationGet(organization_id) IN
    IF ~IsOk(found) THEN found
    ELSE IF IsSome(found.val) THEN Ok(TRUE) ELSE NotFound("organization not found")

BankCreate_InsertsFirst(id, organization_id, params) ==
    LET name == BankNormalizeName(params.name)
        exists == BankEnsureOrganizationExists(organization_id)
    IN  IF ~IsOk(name) THEN Done(name, banks)
        ELSE LET store == BankRepoInsert(id, name.val, organization_id) IN
             IF ~IsOk(exists) THEN Done(exists, store)
             ELSE Done(Ok(store[id]), store)

BankCreate(id, organization_id, params) ==
    LET name == BankNormalizeName(params.name)
        exists == BankEnsureOrganizationExists(organization_id)
    IN  IF ~IsOk(name) THEN Done(name, banks)
        ELSE IF ~IsOk(exists) THEN Done(exists, banks)
        ELSE LET store == BankRepoInsert(id, name.val, organization_id) IN
             Written("bank", store[id], banks, store)

BankGet(organization_id, bank_id) ==
    LET bank == Read("bank", BankRepoFetch(bank_id)) IN
    IF ~IsOk(bank) THEN bank
    ELSE Ok(IF IsSome(bank.val) /\ Unwrap(bank.val).organization_id = organization_id
            THEN bank.val ELSE None)

BankUpdate(organization_id, bank_id, params) ==
    IF IsNone(params.name) THEN Done(Validation("no fields supplied for update"), banks)
    ELSE LET found == BankGet(organization_id, bank_id) IN
    IF ~IsOk(found) THEN Done(found, banks)
    ELSE IF IsNone(found.val) THEN Done(Ok(None), banks)
    ELSE LET name == NormalizeOpt(params.name, BankNormalizeName) IN
         IF ~IsOk(name) THEN Done(name, banks)
         ELSE LET store == BankRepoUpdate(bank_id, Transposed(params.name, name)) IN
              Written("bank", IF bank_id \in DOMAIN store THEN Some(store[bank_id]) ELSE None,
                      banks, store)

BankDelete(organization_id, bank_id) ==
    LET found == BankGet(organization_id, bank_id) IN
    IF ~IsOk(found) THEN Done(found, banks)
    ELSE IF IsNone(found.val) THEN Done(Ok(FALSE), banks)
    ELSE Written("bank", bank_id \in DOMAIN banks, banks, BankRepoDelete(bank_id))

(***************************************************************************)
(* Employee.  Of the twelve text fields, id_number, last_name and          *)
(* first_name are carried; the other nine pass through the same            *)
(* normalize_field between first_name and hours and are stored likewise.   *)
(***************************************************************************)
EmployeeRepoInsert(id, id_number, last_name, first_name, hire_date, termination_date, job_id, bank_id, hours, division_id, payroll_id) ==
    (id :> [id |-> id, id_number |-> id_number, last_name |-> last_name,
            first_name |-> first_name, hire_date |-> hire_date,
            termination_date |-> termination_date, job_id |-> job_id,
            bank_id |-> bank_id, hours |-> hours, division_id |-> division_id,
            payroll_id |-> payroll_id]) @@ employees

EmployeeRepoFetch(id) == IF id \in DOMAIN employees THEN Some(employees[id]) ELSE None

(* A repository update that takes a null termination date for an absent   *)
(* one.                                                                    *)
EmployeeRepoUpdate_Flattened(id, updates) ==
    IF id \in DOMAIN employees
    THEN [employees EXCEPT ![id].id_number = UnwrapOr(updates.id_number, @),
                           ![id].last_name = UnwrapOr(updates.last_name, @),
                           ![id].first_name = UnwrapOr(updates.first_name, @),
                           ![id].hire_date = UnwrapOr(updates.hire_date, @),
                           ![id].termination_date =
                               IF /\ IsSome(updates.termination_date)
                                  /\ IsSome(Unwrap(updates.termination_date))
                               THEN Unwrap(updates.termination_date) ELSE @,
                           ![id].job_id = UnwrapOr(updates.job_id, @),
                           ![id].bank_id = UnwrapOr(updates.bank_id, @),
                           ![id].hours = UnwrapOr(updates.hours, @)]
    ELSE employees

EmployeeRepoUpdate(id, updates) ==
    IF id \in DOMAIN employees
    THEN [employees EXCEPT ![id].id_number = UnwrapOr(updates.id_number, @),
                           ![id].last_name = UnwrapOr(updates.last_name, @),
                           ![id].first_name = UnwrapOr(updates.first_name, @),
                           ![id].hire_date = UnwrapOr(updates.hire_date, @),
                           ![id].termination_date = UnwrapOr(updates.termination_date, @),
                           ![id].job_id = UnwrapOr(updates.job_id, @),
                           ![id].bank_id = UnwrapOr(updates.bank_id, @),
                           ![id].hours = UnwrapOr(updates.hours, @)]
    ELSE employees

EmployeeRepoDelete(id) == [i \in DOMAIN employees \ {id} |-> employees[i]]

EmployeeNormalizeField(value, field) ==
    IF Trim(value) = <<>> THEN Validation(field \o " cannot be empty") ELSE Ok(Trim(value))

EmployeeValidateHours(value) ==
    IF value < 0 THEN Validation("hours cannot be negative") ELSE Ok(value)

(* validate_termination_date refusing the hire date itself.                *)
EmployeeValidateTerminationDate_Strict(hire_date, termination_date) ==
    IF IsSome(termination_date)
    THEN IF Unwrap(termination_date) <= hire_date
         THEN Validation("termination date cannot be before hire date")
         ELSE Ok(termination_date)
    ELSE Ok(None)

EmployeeValidateTerminationDate(hire_date, termination_date) ==
    IF IsSome(termination_date)
    THEN IF Unwrap(termination_date) < hire_date
         THEN Validation("termination date cannot be before hire date")
         ELSE Ok(termination_date)
    ELSE Ok(None)

(* division_service.get is handed the scope, and looks at the id alone.    *)
EmployeeEnsureDivisionAccessible(organization_id, payroll_id, division_id) ==
    LET belongs == PayrollEnsureBelongsToOrganization(organization_id, payroll_id)
        division == DivisionGet(division_id)
    IN  IF ~IsOk(belongs) THEN belongs
        ELSE IF ~IsOk(division) THEN division
        ELSE IF IsSome(division.val) THEN Ok(TRUE)
        ELSE NotFound("division not found for payroll in organization")

EmployeeEnsureJobBelongs_Unchecked(organization_id, payroll_id, job_id) == Ok(TRUE)

EmployeeEnsureJobBelongs(organization_id, payroll_id, job_id) ==
    LET job == JobGet(organization_id, payroll_id, job_id) IN
    IF ~IsOk(job) THEN job
    ELSE IF IsSome(job.val) /\ Unwrap(job.val).payroll_id = payroll_id THEN Ok(TRUE)
    ELSE NotFound("job not found for payroll")

(* ensure_bank_belongs asking only whether the bank is stored.             *)
EmployeeEnsureBankBelongs_AnyOrganization(organization_id, bank_id) ==
    IF IsSome(BankRepoFetch(bank_id)) THEN Ok(TRUE)
    ELSE NotFound("bank not found for organization")

EmployeeEnsureBankBelongs(organization_id, bank_id) ==
    LET bank == BankGet(organization_id, bank_id) IN
    IF ~IsOk(bank) THEN bank
    ELSE IF IsSome(bank.val) /\ Unwrap(bank.val).organization_id = organization_id
         THEN Ok(TRUE)
    ELSE NotFound("bank not found for organization")

EmployeeCreate_TextsFirst(id, organization_id, payroll_id, division_id, params) ==
    LET division == DivisionGet(division_id)
        job == EmployeeEnsureJobBelongs(organization_id, payroll_id, params.job_id)
        bank == EmployeeEnsureBankBelongs(organization_id, params.bank_id)
        id_number == EmployeeNormalizeField(params.id_number, "id number")
        last_name == EmployeeNormalizeField(params.last_name, "last name")
        first_name == EmployeeNormalizeField(params.first_name, "first name")
        hours == EmployeeValidateHours(params.hours)
        termination_date == EmployeeValidateTerminationDate(params.hire_date,
                                                            params.termination_date)
    IN  IF ~IsOk(division) THEN Done(division, employees)
        ELSE IF IsNone(division.val)
             THEN Done(NotFound("division not found for payroll in organization"), employees)
        ELSE IF ~IsOk(id_number) THEN Done(id_number, employees)
        ELSE IF ~IsOk(last_name) THEN Done(last_name, employees)
        ELSE IF ~IsOk(first_name) THEN Done(first_name, employees)
        ELSE IF ~IsOk(hours) THEN Done(hours, employees)
        ELSE IF ~IsOk(job) THEN Done(job, employees)
        ELSE IF ~IsOk(bank) THEN Done(bank, employees)
        ELSE IF ~IsOk(termination_date) THEN Done(termination_date, employees)
        ELSE LET store == EmployeeRepoInsert(
                              id, id_number.val, last_name.val, first_name.val,
                              params.hire_date, termination_date.val, params.job_id,
                              params.bank_id, hours.val, Unwrap(division.val).id, payroll_id)
             IN  Done(Ok(store[id]), store)

EmployeeCreate(id, organization_id, payroll_id, division_id, params) ==
    LET division == DivisionGet(division_id)
        job == EmployeeEnsureJobBelongs(organization_id, payroll_id, params.job_id)
        bank == EmployeeEnsureBankBelongs(organization_id, params.bank_id)
        id_number == EmployeeNormalizeField(params.id_number, "id number")
        last_name == EmployeeNormalizeField(params.last_name, "last name")
        first_name == EmployeeNormalizeField(params.first_name, "first name")
        hours == EmployeeValidateHours(params.hours)
        termination_date == EmployeeValidateTerminationDate(params.hire_date,
                                                            params.termination_date)
    IN  IF ~IsOk(division) THEN Done(division, employees)
        ELSE IF IsNone(division.val)
             THEN Done(NotFound("division not found for payroll in organization"), employees)
        ELSE IF ~IsOk(job) THEN Done(job, employees)
        ELSE IF ~IsOk(bank) THEN Done(bank, employees)
        ELSE IF ~IsOk(id_number) THEN Done(id_number, employees)
        ELSE IF ~IsOk(last_name) THEN Done(last_name, employees)
        ELSE IF ~IsOk(first_name) THEN Done(first_name, employees)
        ELSE IF ~IsOk(hours) THEN Done(hours, employees)
        ELSE IF ~IsOk(termination_date) THEN Done(termination_date, employees)
        ELSE LET store == EmployeeRepoInsert(
                              id, id_number.val, last_name.val, first_name.val,
                              params.hire_date, termination_date.val, params.job_id,
                              params.bank_id, hours.val, Unwrap(division.val).id, payroll_id)
             IN  Written("employee", store[id], employees, store)

EmployeeGet(organization_id, payroll_id, division_id, employee_id) ==
    LET accessible == EmployeeEnsureDivisionAccessible(organization_id, payroll_id, division_id)
        employee == Read("employee", EmployeeRepoFetch(employee_id))
    IN  IF ~IsOk(accessible) THEN accessible
        ELSE IF ~IsOk(employee) THEN employee
        ELSE Ok(IF /\ IsSome(employee.val)
                   /\ Unwrap(employee.val).division_id = division_id
                   /\ Unwrap(employee.val).payroll_id = payroll_id
                THEN employee.val ELSE None)

EmployeeUpdate(organization_id, payroll_id, division_id, employee_id, params) ==
    IF /\ IsNone(params.id_number)
       /\ IsNone(params.last_name)
       /\ IsNone(params.first_name)
       /\ IsNone(params.hire_date)
       /\ IsNone(params.termination_date)
       /\ IsNone(params.job_id)
       /\ IsNone(params.bank_id)
       /\ IsNone(params.hours)
    THEN Done(Validation("no fields supplied for update"), employees)
    ELSE LET found == EmployeeGet(organization_id, payroll_id, division_id, employee_id) IN
    IF ~IsOk(found) THEN Done(found, employees)
    ELSE IF IsNone(found.val) THEN Done(Ok(None), employees)
    ELSE
    LET employee == Unwrap(found.val)
        job == IF IsSome(params.job_id)
               THEN EmployeeEnsureJobBelongs(organization_id, payroll_id, Unwrap(params.job_id))
               ELSE Ok(TRUE)
        bank == IF IsSome(params.bank_id)
                THEN EmployeeEnsureBankBelongs(organization_id, Unwrap(params.bank_id))
                ELSE Ok(TRUE)
        hire_date == UnwrapOr(params.hire_date, employee.hire_date)
        termination_date ==
            IF IsSome(params.termination_date)
            THEN EmployeeValidateTerminationDate(hire_date, Unwrap(params.termination_date))
            ELSE Ok(None)
        id_number == NormalizeOpt(params.id_number,
                                 LAMBDA v : EmployeeNormalizeField(v, "id number"))
        last_name == NormalizeOpt(params.last_name,
                                 LAMBDA v : EmployeeNormalizeField(v, "last name"))
        first_name == NormalizeOpt(params.first_name,
                                  LAMBDA v : EmployeeNormalizeField(v, "first name"))
        hours == NormalizeOpt(params.hours, EmployeeValidateHours)
    IN  IF ~IsOk(job) THEN Done(job, employees)
        ELSE IF ~IsOk(bank) THEN Done(bank, employees)
        ELSE IF ~IsOk(termination_date) THEN Done(termination_date, employees)
        ELSE IF ~IsOk(id_number) THEN Done(id_number, employees)
        ELSE IF ~IsOk(last_name) THEN Done(last_name, employees)
        ELSE IF ~IsOk(first_name) THEN Done(first_name, employees)
        ELSE IF ~IsOk(hours) THEN Done(hours, employees)
        ELSE LET updates == [id_number |-> Transposed(params.id_number, id_number),
                             last_name |-> Transposed(params.last_name, last_name),
                             first_name |-> Transposed(params.first_name, first_name),
                             hire_date |-> params.hire_date,
                             termination_date |->
                                 Transposed(params.termination_date, termination_date),
                             job_id |-> params.job_id,
                             bank_id |-> params.bank_id,
                             hours |-> Transposed(params.hours, hours)]
                 store == EmployeeRepoUpdate(employee_id, updates)
             IN  Written("employee",
                         IF employee_id \in DOMAIN store THEN Some(store[employee_id]) ELSE None,
                         employees, store)

EmployeeDelete(organization_id, payroll_id, division_id, employee_id) ==
    LET found == EmployeeGet(organization_id, payroll_id, division_id, employee_id) IN
    IF ~IsOk(found) THEN Done(found, employees)
    ELSE IF IsNone(found.val) THEN Done(Ok(FALSE), employees)
    ELSE Written("employee", employee_id \in DOMAIN employees, employees,
                 EmployeeRepoDelete(employee_id))

(***************************************************************************)
(* Listing.  A repository hands its rows over in an order of its own (the  *)
(* iteration order of the map that holds them): `scan` is that order, a    *)
(* sequence of the stored identifiers.  The service sorts what it is given *)
(* with a stable sort on the key.                                          *)
(***************************************************************************)
Scans(ids) ==
    {scan \in [1..Cardinality(ids) -> ids] : \A i, j \in DOMAIN scan : i # j => scan[i] # scan[j]}

CharCode(c) == CASE c = " " -> 32 [] c = "a" -> 97 [] c = "b" -> 98

(* Ordering of two texts: -1 is Less, 0 is Equal, 1 is Greater.            *)
RECURSIVE TextCmp(_, _)
TextCmp(s, t) == IF s = <<>> \/ t = <<>> THEN (IF s = t THEN 0 ELSE IF s = <<>> THEN -1 ELSE 1) ELSE IF CharCode(Head(s)) # CharCode(Head(t)) THEN (IF CharCode(Head(s)) < CharCode(Head(t)) THEN -1 ELSE 1) ELSE TextCmp(Tail(s), Tail(t))

(* Ordering of two keys, each a tuple of texts: the first texts decide,    *)
(* then the next.                                                          *)
RECURSIVE KeyCmp(_, _)
KeyCmp(a, b) == IF a = <<>> THEN 0 ELSE IF TextCmp(Head(a), Head(b)) # 0 THEN TextCmp(Head(a), Head(b)) ELSE KeyCmp(Tail(a), Tail(b))

RECURSIVE SortInsert(_, _, _)
SortInsert(sorted, item, key) == IF sorted = <<>> THEN <<item>> ELSE IF KeyCmp(key[item], key[Head(sorted)]) < 0 THEN <<item>> \o sorted ELSE <<Head(sorted)>> \o SortInsert(Tail(sorted), item, key)

(* The items in ascending order of key[item]; items of equal key keep the  *)
(* order they came in.                                                     *)
RECURSIVE SortBy(_, _)
SortBy(items, key) == IF items = <<>> THEN <<>> ELSE SortInsert(SortBy(SubSeq(items, 1, Len(items) - 1), key), items[Len(items)], key)

Rows(items) == {items[i] : i \in DOMAIN items}

OrganizationRepoFetchAll(scan) == [i \in DOMAIN scan |-> organizations[scan[i]]]

OrganizationList(scan) ==
    LET found == Read("organization", OrganizationRepoFetchAll(scan)) IN
    IF ~IsOk(found) THEN found
    ELSE Ok(SortBy(found.val, [o \in Rows(found.val) |-> <<o.name>>]))

PayrollRepoFetchByOrganization(organization_id, scan) ==
    SelectSeq([i \in DOMAIN scan |-> payrolls[scan[i]]],
              LAMBDA payroll : payroll.organization_id = organization_id)

PayrollList(organization_id, scan) ==
    LET exists == PayrollEnsureOrganizationExists(organization_id)
        found == Read("payroll", PayrollRepoFetchByOrganization(organization_id, scan))
    IN  IF ~IsOk(exists) THEN exists
        ELSE IF ~IsOk(found) THEN found
        ELSE Ok(SortBy(found.val, [p \in Rows(found.val) |-> <<p.name>>]))

DivisionRepoFetchAll(scan) == [i \in DOMAIN scan |-> divisions[scan[i]]]

DivisionList(scan) ==
    LET found == Read("division", DivisionRepoFetchAll(scan)) IN
    IF ~IsOk(found) THEN found
    ELSE Ok(SortBy(found.val, [d \in Rows(found.val) |-> <<d.name>>]))

JobRepoFetchByPayroll(payroll_id, scan) ==
    SelectSeq([i \in DOMAIN scan |-> jobs[scan[i]]], LAMBDA job : job.payroll_id = payroll_id)

JobList(organization_id, payroll_id, scan) ==
    LET accessible == JobEnsurePayrollAccessible(organization_id, payroll_id)
        found == Read("job", JobRepoFetchByPayroll(payroll_id, scan))
    IN  IF ~IsOk(accessible) THEN accessible
        ELSE IF ~IsOk(found) THEN found
        ELSE Ok(SortBy(found.val, [j \in Rows(found.val) |-> <<j.job_title>>]))

BankRepoFetchByOrganization(organization_id, scan) ==
    SelectSeq([i \in DOMAIN scan |-> banks[scan[i]]],
              LAMBDA bank : bank.organization_id = organization_id)

BankList(organization_id, scan) ==
    LET exists == BankEnsureOrganizationExists(organization_id)
        found == Read("bank", BankRepoFetchByOrganization(organization_id, scan))
    IN  IF ~IsOk(exists) THEN exists
        ELSE IF ~IsOk(found) THEN found
        ELSE Ok(SortBy(found.val, [b \in Rows(found.val) |-> <<b.name>>]))

EmployeeRepoFetchByDivision(division_id, scan) ==
    SelectSeq([i \in DOMAIN scan |-> employees[scan[i]]],
              LAMBDA employee : employee.division_id = division_id)

EmployeeList(organization_id, payroll_id, division_id, scan) ==
    LET accessible == EmployeeEnsureDivisionAccessible(organization_id, payroll_id, division_id)
        found == Read("employee", EmployeeRepoFetchByDivision(division_id, scan))
    IN  IF ~IsOk(accessible) THEN accessible
        ELSE IF ~IsOk(found) THEN found
        ELSE Ok(SortBy(found.val, [e \in Rows(found.val) |-> <<e.last_name, e.first_name>>]))

(***************************************************************************)
(* Requests                                                                *)
(***************************************************************************)
Supplied(params) == Cardinality({f \in DOMAIN params : IsSome(params[f])})

(* The set S, enumerated once.                                             *)
Enumerated(S) == {x : x \in S}

SalaryInputs == {-1, 0, 1, 2}
HoursInputs == {-1, 0, 1}

OrganizationCreateInputs == [name : NameInputs]
OrganizationUpdateInputs == [name : Opt(NameInputs)]

PayrollCreateInputs == [name : NameInputs, description : TextInputs]
PayrollUpdateInputs == [name : Opt(NameInputs), description : Opt(TextInputs)]

DivisionCreateInputs ==
    Enumerated([name : NameInputs, description : TextInputs, budget_code : TextInputs,
                payroll_id : PayrollIds, parent_division_id : Opt(DivisionIds)])

(* Update requests for a division: at most MaxUpdateFields fields, or the   *)
(* payroll and the parent together.                                        *)
DivisionUpdateInputs ==
    Enumerated(
    {params \in [name : Opt(NameInputs), description : Opt(TextInputs),
                 budget_code : Opt(TextInputs), payroll_id : Opt(PayrollIds),
                 parent_division_id : Opt(Opt(DivisionIds))] :
        \/ Supplied(params) <= MaxUpdateFields
        \/ /\ Supplied(params) = 2
           /\ IsSome(params.payroll_id)
           /\ IsSome(params.parent_division_id)})

JobCreateInputs == [job_title : NameInputs, salary : SalaryInputs]
JobUpdateInputs == [job_title : Opt(NameInputs), salary : Opt(SalaryInputs)]

BankCreateInputs == [name : NameInputs]
BankUpdateInputs == [name : Opt(NameInputs)]

(* Create requests for an employee: the dates and references range freely; *)
(* of the texts and the hours at most MaxDeviations differ from the plain   *)
(* request.                                                                *)
PlainEmployee ==
    [id_number |-> <<" ", "a">>, last_name |-> <<"a">>, first_name |-> <<" ", "a">>,
     hours |-> 0]

Deviations(params) ==
    Cardinality({f \in DOMAIN PlainEmployee : params[f] # PlainEmployee[f]})

EmployeeCreateInputs ==
    Enumerated(
    {params \in [id_number : TextInputs, last_name : NameInputs,
                 first_name : TextInputs, hire_date : Dates,
                 termination_date : Opt(Dates), job_id : JobIds,
                 bank_id : BankIds, hours : HoursInputs] :
        Deviations(params) <= MaxDeviations})

(* Update requests for an employee: at most MaxUpdateFields fields, or the  *)
(* two dates together.                                                     *)
EmployeeUpdateInputs ==
    Enumerated(
    {params \in [id_number : Opt(TextInputs), last_name : Opt(NameInputs),
                 first_name : Opt(TextInputs), hire_date : Opt(Dates),
                 termination_date : Opt(Opt(Dates)), job_id : Opt(JobIds),
                 bank_id : Opt(BankIds), hours : Opt(HoursInputs)] :
        \/ Supplied(params) <= MaxUpdateFields
        \/ /\ Supplied(params) = 2
           /\ IsSome(params.hire_date)
           /\ IsSome(params.termination_date)})

(* The one well-formed request with which a specification that studies     *)
(* another service sets up the entities that service rests on.             *)
Plain == <<"a">>
OrganizationSetup == {[name |-> Plain]}
PayrollSetup == {[name |-> Plain, description |-> Plain]}
DivisionSetup ==
    {[name |-> Plain, description |-> Plain, budget_code |-> Plain,
      payroll_id |-> p, parent_division_id |-> None] : p \in PayrollIds}
JobSetup == {[job_title |-> Plain, salary |-> 1]}
BankSetup == {[name |-> Plain]}
EmployeeSetup ==
    {[id_number |-> Plain, last_name |-> Plain, first_name |-> Plain,
      hire_date |-> h, termination_date |-> t, job_id |-> j, bank_id |-> b,
      hours |-> 0] : h \in Dates, t \in Opt(Dates), j \in JobIds, b \in BankIds}

(* Requests that are accepted and differ in the texts they carry: a text   *)
(* is the plain one, or one that normalisation changes.                    *)
Padded == <<" ", "b", " ">>
Texts == {Plain, Padded}
OrganizationNamed == [name : Texts]
PayrollNamed == [name : Texts, description : {Plain}]
DivisionNamed == [name : Texts, description : {Plain}, budget_code : {Plain}, payroll_id : PayrollIds, parent_division_id : {None}]
JobNamed == [job_title : Texts, salary : {1}]
BankNamed == [name : Texts]
EmployeeNamed == [id_number : {Plain}, last_name : Texts, first_name : {Plain}, hire_date : {1}, termination_date : {None}, job_id : JobIds, bank_id : BankIds, hours : {0}]

(* The fields of the plain request of each service, and the accepted       *)
(* requests that differ from it in at most MaxDeviations of them.          *)
OrganizationPlain == [name |-> Plain]
PayrollPlain == [name |-> Plain, description |-> Plain]
DivisionPlain == [name |-> Plain, description |-> Plain, budget_code |-> Plain, parent_division_id |-> None]
JobPlain == [job_title |-> Plain, salary |-> 1]
BankPlain == [name |-> Plain]
EmployeePlain == [id_number |-> Plain, last_name |-> Plain, first_name |-> Plain, termination_date |-> None, hours |-> 0]

Varied(Inputs, plain) ==
    Enumerated({params \in Inputs :
                   Cardinality({f \in DOMAIN plain : params[f] # plain[f]}) <= MaxDeviations})

OrganizationVaried == Varied([name : Texts], OrganizationPlain)
PayrollVaried == Varied([name : Texts, description : Texts], PayrollPlain)
DivisionVaried == Varied([name : Texts, description : Texts, budget_code : Texts, payroll_id : PayrollIds, parent_division_id : Opt(DivisionIds)], DivisionPlain)
JobVaried == Varied([job_title : Texts, salary : {1, 2}], JobPlain)
BankVaried == Varied([name : Texts], BankPlain)
EmployeeVaried == Varied([id_number : Texts, last_name : Texts, first_name : Texts, hire_date : {1}, termination_date : Opt(Dates), job_id : JobIds, bank_id : BankIds, hours : {0, 1}], EmployeePlain)

(* The number of stored entities that are not as the plain request makes   *)
(* them.                                                                   *)
Unplain(store, plain) ==
    Cardinality({id \in DOMAIN store : \E f \in DOMAIN plain : store[id][f] # plain[f]})

Variety ==
    Unplain(organizations, OrganizationPlain) + Unplain(payrolls, PayrollPlain)
    + Unplain(divisions, DivisionPlain) + Unplain(jobs, JobPlain)
    + Unplain(banks, BankPlain) + Unplain(employees, EmployeePlain)

(* The update requests of Inputs that supply no field outside `fields`.    *)
Only(Inputs, fields) ==
    {params \in Inputs : \A f \in DOMAIN params \ fields : IsNone(params[f])}

(***************************************************************************)
(* State machine: the stores start empty; each step is one service call.   *)
(* `issued` counts the identifiers each service has generated (an          *)
(* identifier is never generated twice, nor is it one the request names);  *)
(* `last` is what the caller saw of the latest call; `pending` is the row  *)
(* that a create, whose checks have passed, is about to insert.            *)
(***************************************************************************)
Empty == [i \in {} |-> 0]

Init ==
    /\ organizations = Empty
    /\ payrolls = Empty
    /\ divisions = Empty
    /\ jobs = Empty
    /\ banks = Empty
    /\ employees = Empty
    /\ issued = [organization |-> 0, payroll |-> 0, division |-> 0,
                 job |-> 0, bank |-> 0, employee |-> 0]
    /\ last = [op |-> "none", res |-> "none", msg |-> "", id |-> 0, note |-> <<>>]
    /\ pending = None
    /\ down = {}

Message(r) == IF IsOk(r) THEN "" ELSE r.msg

(* A call that runs from its checks to its write in one step leaves the    *)
(* call that is in flight, if there is one, where it is.                   *)
Called(op, res, msg, id, note) ==
    /\ last' = [op |-> op, res |-> res, msg |-> msg, id |-> id, note |-> note]
    /\ pending' = pending
    /\ down' = down

DoOrganizationCreate(Inputs) ==
    \E params \in Inputs :
        LET id == issued.organization + 1
            r == OrganizationCreate(id, params)
        IN  /\ IsOk(r.res) => id <= MaxOrganizations
            /\ organizations' = r.store
            /\ issued' = IF IsOk(r.res) THEN [issued EXCEPT !.organization = id] ELSE issued
            /\ Called("organization_create", OutcomeCreate(r.res), Message(r.res),
                      IF IsOk(r.res) THEN id ELSE 0, <<>>)
            /\ UNCHANGED <<payrolls, divisions, jobs, banks, employees>>

DoOrganizationGet ==
    \E id \in OrganizationIds :
        LET r == OrganizationGet(id) IN
        /\ Called("organization_get", OutcomeOpt(r), Message(r), id, <<>>)
        /\ UNCHANGED <<organizations, payrolls, divisions, jobs, banks, employees, issued>>

DoOrganizationUpdate(Inputs) ==
    \E id \in OrganizationIds, params \in Inputs :
        LET r == OrganizationUpdate(id, params) IN
        /\ organizations' = r.store
        /\ Called("organization_update", OutcomeOpt(r.res), Message(r.res), id, <<>>)
        /\ UNCHANGED <<payrolls, divisions, jobs, banks, employees, issued>>

DoOrganizationDelete ==
    \E id \in OrganizationIds :
        LET r == OrganizationDelete(id) IN
        /\ organizations' = r.store
        /\ Called("organization_delete", OutcomeBool(r.res), Message(r.res), id, <<>>)
        /\ UNCHANGED <<payrolls, divisions, jobs, banks, employees, issued>>

DoPayrollCreate(Organizations, Inputs) ==
    \E organization_id \in Organizations, params \in Inputs :
        LET id == issued.payroll + 1
            r == PayrollCreate(id, organization_id, params)
        IN  /\ IsOk(r.res) => id <= MaxPayrolls
            /\ payrolls' = r.store
            /\ issued' = IF IsOk(r.res) THEN [issued EXCEPT !.payroll = id] ELSE issued
            /\ Called("payroll_create", OutcomeCreate(r.res), Message(r.res),
                      IF IsOk(r.res) THEN id ELSE 0, <<>>)
            /\ UNCHANGED <<organizations, divisions, jobs, banks, employees>>

DoPayrollGet ==
    \E organization_id \in OrganizationIds, id \in PayrollIds :
        LET r == PayrollGet(organization_id, id) IN
        /\ Called("payroll_get", OutcomeOpt(r), Message(r), id, <<>>)
        /\ UNCHANGED <<organizations, payrolls, divisions, jobs, banks, employees, issued>>

DoPayrollUpdate(Inputs) ==
    \E organization_id \in OrganizationIds, id \in PayrollIds, params \in Inputs :
        LET r == PayrollUpdate(organization_id, id, params) IN
        /\ payrolls' = r.store
        /\ Called("payroll_update", OutcomeOpt(r.res), Message(r.res), id, <<>>)
        /\ UNCHANGED <<organizations, divisions, jobs, banks, employees, issued>>

DoPayrollDelete ==
    \E organization_id \in OrganizationIds, id \in PayrollIds :
        LET r == PayrollDelete(organization_id, id) IN
        /\ payrolls' = r.store
        /\ Called("payroll_delete", OutcomeBool(r.res), Message(r.res), id, <<>>)
        /\ UNCHANGED <<organizations, divisions, jobs, banks, employees, issued>>

DoDivisionCreate(Inputs) ==
    \E params \in Inputs :
        LET id == issued.division + 1
            r == DivisionCreate(id, params)
        IN  /\ params.parent_division_id # Some(id)
            /\ IsOk(r.res) => id <= MaxDivisions
            /\ divisions' = r.store
            /\ issued' = IF IsOk(r.res) THEN [issued EXCEPT !.division = id] ELSE issued
            /\ Called("division_create", OutcomeCreate(r.res), Message(r.res),
                      IF IsOk(r.res) THEN id ELSE 0, <<>>)
            /\ UNCHANGED <<organizations, payrolls, jobs, banks, employees>>

DoDivisionGet ==
    \E id \in DivisionIds :
        LET r == DivisionGet(id) IN
        /\ Called("division_get", OutcomeOpt(r), Message(r), id, <<>>)
        /\ UNCHANGED <<organizations, payrolls, divisions, jobs, banks, employees, issued>>

DoDivisionUpdate(Inputs) ==
    \E id \in DivisionIds, params \in Inputs :
        LET r == DivisionUpdate(id, params) IN
        /\ divisions' = r.store
        /\ Called("division_update", OutcomeOpt(r.res), Message(r.res), id,
                  IF IsOk(r.res) THEN params.parent_division_id ELSE <<>>)
        /\ UNCHANGED <<organizations, payrolls, jobs, banks, employees, issued>>

DoDivisionDelete ==
    \E id \in DivisionIds :
        LET r == DivisionDelete(id) IN
        /\ divisions' = r.store
        /\ Called("division_delete", OutcomeBool(r.res), Message(r.res), id, <<>>)
        /\ UNCHANGED <<organizations, payrolls, jobs, banks, employees, issued>>

DoJobCreate(Organizations, Payrolls, Inputs) ==
    \E organization_id \in Organizations, payroll_id \in Payrolls, params \in Inputs :
        LET id == issued.job + 1
            r == JobCreate(id, organization_id, payroll_id, params)
        IN  /\ IsOk(r.res) => id <= MaxJobs
            /\ jobs' = r.store
            /\ issued' = IF IsOk(r.res) THEN [issued EXCEPT !.job = id] ELSE issued
            /\ Called("job_create", OutcomeCreate(r.res), Message(r.res),
                      IF IsOk(r.res) THEN id ELSE 0, <<>>)
            /\ UNCHANGED <<organizations, payrolls, divisions, banks, employees>>

DoJobGet ==
    \E organization_id \in OrganizationIds, payroll_id \in PayrollIds, id \in JobIds :
        LET r == JobGet(organization_id, payroll_id, id) IN
        /\ Called("job_get", OutcomeOpt(r), Message(r), id, <<>>)
        /\ UNCHANGED <<organizations, payrolls, divisions, jobs, banks, employees, issued>>

DoJobUpdate(Inputs) ==
    \E organization_id \in OrganizationIds, payroll_id \in PayrollIds, id \in JobIds,
       params \in Inputs :
        LET r == JobUpdate(organization_id, payroll_id, id, params) IN
        /\ jobs' = r.store
        /\ Called("job_update", OutcomeOpt(r.res), Message(r.res), id, <<>>)
        /\ UNCHANGED <<organizations, payrolls, divisions, banks, employees, issued>>

DoJobDelete ==
    \E organization_id \in OrganizationIds, payroll_id \in PayrollIds, id \in JobIds :
        LET r == JobDelete(organization_id, payroll_id, id) IN
        /\ jobs' = r.store
        /\ Called("job_delete", OutcomeBool(r.res), Message(r.res), id, <<>>)
        /\ UNCHANGED <<organizations, payrolls, divisions, banks, employees, issued>>

DoBankCreate(Organizations, Inputs) ==
    \E organization_id \in Organizations, params \in Inputs :
        LET id == issued.bank + 1
            r == BankCreate(id, organization_id, params)
        IN  /\ IsOk(r.res) => id <= MaxBanks
            /\ banks' = r.store
            /\ issued' = IF IsOk(r.res) THEN [issued EXCEPT !.bank = id] ELSE issued
            /\ Called("bank_create", OutcomeCreate(r.res), Message(r.res),
                      IF IsOk(r.res) THEN id ELSE 0, <<>>)
            /\ UNCHANGED <<organizations, payrolls, divisions, jobs, employees>>

DoBankGet ==
    \E organization_id \in OrganizationIds, id \in BankIds :
        LET r == BankGet(organization_id, id) IN
        /\ Called("bank_get", OutcomeOpt(r), Message(r), id, <<>>)
        /\ UNCHANGED <<organizations, payrolls, divisions, jobs, banks, employees, issued>>

DoBankUpdate(Inputs) ==
    \E organization_id \in OrganizationIds, id \in BankIds, params \in Inputs :
        LET r == BankUpdate(organization_id, id, params) IN
        /\ banks' = r.store
        /\ Called("bank_update", OutcomeOpt(r.res), Message(r.res), id, <<>>)
        /\ UNCHANGED <<organizations, payrolls, divisions, jobs, employees, issued>>

DoBankDelete ==
    \E organization_id \in OrganizationIds, id \in BankIds :
        LET r == BankDelete(organization_id, id) IN
        /\ banks' = r.store
        /\ Called("bank_delete", OutcomeBool(r.res), Message(r.res), id, <<>>)
        /\ UNCHANGED <<organizations, payrolls, divisions, jobs, employees, issued>>

DoEmployeeCreate(Inputs) ==
    \E organization_id \in OrganizationIds, payroll_id \in PayrollIds,
       division_id \in DivisionIds, params \in Inputs :
        LET id == issued.employee + 1
            r == EmployeeCreate(id, organization_id, payroll_id, division_id, params)
        IN  /\ IsOk(r.res) => id <= MaxEmployees
            /\ employees' = r.store
            /\ issued' = IF IsOk(r.res) THEN [issued EXCEPT !.employee = id] ELSE issued
            /\ Called("employee_create", OutcomeCreate(r.res), Message(r.res),
                      IF IsOk(r.res) THEN id ELSE 0, <<>>)
            /\ UNCHANGED <<organizations, payrolls, divisions, jobs, banks>>

DoEmployeeGet ==
    \E organization_id \in OrganizationIds, payroll_id \in PayrollIds,
       division_id \in DivisionIds, id \in EmployeeIds :
        LET r == EmployeeGet(organization_id, payroll_id, division_id, id) IN
        /\ Called("employee_get", OutcomeOpt(r), Message(r), id, <<>>)
        /\ UNCHANGED <<organizations, payrolls, divisions, jobs, banks, employees, issued>>

DoEmployeeUpdate(Inputs) ==
    \E organization_id \in OrganizationIds, payroll_id \in PayrollIds,
       division_id \in DivisionIds, id \in EmployeeIds, params \in Inputs :
        LET r == EmployeeUpdate(organization_id, payroll_id, division_id, id, params) IN
        /\ employees' = r.store
        /\ Called("employee_update", OutcomeOpt(r.res), Message(r.res), id,
                  IF IsOk(r.res) THEN params.termination_date ELSE <<>>)
        /\ UNCHANGED <<organizations, payrolls, divisions, jobs, banks, issued>>

DoEmployeeDelete ==
    \E organization_id \in OrganizationIds, payroll_id \in PayrollIds,
       division_id \in DivisionIds, id \in EmployeeIds :
        LET r == EmployeeDelete(organization_id, payroll_id, division_id, id) IN
        /\ employees' = r.store
        /\ Called("employee_delete", OutcomeBool(r.res), Message(r.res), id, <<>>)
        /\ UNCHANGED <<organizations, payrolls, divisions, jobs, banks, issued>>

OutcomeList(r) == IF r.kind # "ok" THEN r.kind ELSE "listed"

(* The identifiers of a returned list, in the order returned.              *)
Listed(r) == IF IsOk(r) THEN [i \in DOMAIN r.val |-> r.val[i].id] ELSE <<>>

DoOrganizationList ==
    \E scan \in Scans(DOMAIN organizations) :
        LET r == OrganizationList(scan) IN
        /\ Called("organization_list", OutcomeList(r), Message(r), 0, Listed(r))
        /\ UNCHANGED <<organizations, payrolls, divisions, jobs, banks, employees, issued>>

DoPayrollList ==
    \E organization_id \in OrganizationIds, scan \in Scans(DOMAIN payrolls) :
        LET r == PayrollList(organization_id, scan) IN
        /\ Called("payroll_list", OutcomeList(r), Message(r), organization_id, Listed(r))
        /\ UNCHANGED <<organizations, payrolls, divisions, jobs, banks, employees, issued>>

DoDivisionList ==
    \E scan \in Scans(DOMAIN divisions) :
        LET r == DivisionList(scan) IN
        /\ Called("division_list", OutcomeList(r), Message(r), 0, Listed(r))
        /\ UNCHANGED <<organizations, payrolls, divisions, jobs, banks, employees, issued>>

DoJobList ==
    \E organization_id \in OrganizationIds, payroll_id \in PayrollIds,
       scan \in Scans(DOMAIN jobs) :
        LET r == JobList(organization_id, payroll_id, scan) IN
        /\ Called("job_list", OutcomeList(r), Message(r), payroll_id, Listed(r))
        /\ UNCHANGED <<organizations, payrolls, divisions, jobs, banks, employees, issued>>

DoBankList ==
    \E organization_id \in OrganizationIds, scan \in Scans(DOMAIN banks) :
        LET r == BankList(organization_id, scan) IN
        /\ Called("bank_list", OutcomeList(r), Message(r), organization_id, Listed(r))
        /\ UNCHANGED <<organizations, payrolls, divisions, jobs, banks, employees, issued>>

DoEmployeeList ==
    \E organization_id \in OrganizationIds, payroll_id \in PayrollIds,
       division_id \in DivisionIds, scan \in Scans(DOMAIN employees) :
        LET r == EmployeeList(organization_id, payroll_id, division_id, scan) IN
        /\ Called("employee_list", OutcomeList(r), Message(r), division_id, Listed(r))
        /\ UNCHANGED <<organizations, payrolls, divisions, jobs, banks, employees, issued>>

(* A create taken in two steps, as it runs beside other calls: Begin makes *)
(* the checks of the service on the stores as they are and generates the   *)
(* id; Complete makes the one repository write, the insert of the row, on  *)
(* the stores as they are then.                                            *)
Begun(service, row) ==
    /\ pending = None
    /\ pending' = Some([service |-> service, row |-> row])
    /\ last' = [op |-> service \o "_create", res |-> "checked", msg |-> "", id |-> row.id,
                note |-> <<>>]
    /\ UNCHANGED <<organizations, payrolls, divisions, jobs, banks, employees, down>>

BeginPayrollCreate(Organizations, Inputs) ==
    \E organization_id \in Organizations, params \in Inputs :
        LET id == issued.payroll + 1
            r == PayrollCreate(id, organization_id, params)
        IN  /\ IsOk(r.res) /\ id <= MaxPayrolls
            /\ issued' = [issued EXCEPT !.payroll = id]
            /\ Begun("payroll", r.res.val)

BeginDivisionCreate(Inputs) ==
    \E params \in Inputs :
        LET id == issued.division + 1
            r == DivisionCreate(id, params)
        IN  /\ params.parent_division_id # Some(id)
            /\ IsOk(r.res) /\ id <= MaxDivisions
            /\ issued' = [issued EXCEPT !.division = id]
            /\ Begun("division", r.res.val)

BeginJobCreate(Organizations, Payrolls, Inputs) ==
    \E organization_id \in Organizations, payroll_id \in Payrolls, params \in Inputs :
        LET id == issued.job + 1
            r == JobCreate(id, organization_id, payroll_id, params)
        IN  /\ IsOk(r.res) /\ id <= MaxJobs
            /\ issued' = [issued EXCEPT !.job = id]
            /\ Begun("job", r.res.val)

BeginBankCreate(Organizations, Inputs) ==
    \E organization_id \in Organizations, params \in Inputs :
        LET id == issued.bank + 1
            r == BankCreate(id, organization_id, params)
        IN  /\ IsOk(r.res) /\ id <= MaxBanks
            /\ issued' = [issued EXCEPT !.bank = id]
            /\ Begun("bank", r.res.val)

BeginEmployeeCreate(Inputs) ==
    \E organization_id \in OrganizationIds, payroll_id \in PayrollIds,
       division_id \in DivisionIds, params \in Inputs :
        LET id == issued.employee + 1
            r == EmployeeCreate(id, organization_id, payroll_id, division_id, params)
        IN  /\ IsOk(r.res) /\ id <= MaxEmployees
            /\ issued' = [issued EXCEPT !.employee = id]
            /\ Begun("employee", r.res.val)

Complete ==
    /\ pending # None
    /\ LET service == Unwrap(pending).service
           row == Unwrap(pending).row
       IN  /\ payrolls' = IF service = "payroll"
                          THEN PayrollRepoInsert(row.id, row.name, row.description,
                                                 row.organization_id)
                          ELSE payrolls
           /\ divisions' = IF service = "division"
                           THEN DivisionRepoInsert(row.id, row.name, row.description,
                                                   row.budget_code, row.payroll_id,
                                                   row.parent_division_id)
                           ELSE divisions
           /\ jobs' = IF service = "job"
                      THEN JobRepoInsert(row.id, row.job_title, row.salary, row.payroll_id)
                      ELSE jobs
           /\ banks' = IF service = "bank"
                       THEN BankRepoInsert(row.id, row.name, row.organization_id)
                       ELSE banks
           /\ employees' = IF service = "employee"
                           THEN EmployeeRepoInsert(row.id, row.id_number, row.last_name,
                                                   row.first_name, row.hire_date,
                                                   row.termination_date, row.job_id,
                                                   row.bank_id, row.hours, row.division_id,
                                                   row.payroll_id)
                           ELSE employees
           /\ last' = [op |-> service \o "_create", res |-> "created", msg |-> "",
                       id |-> row.id, note |-> <<>>]
    /\ pending' = None
    /\ UNCHANGED <<organizations, issued, down>>

(* The database behind a repository stops answering, and answers again.    *)
Repositories == {"organization", "payroll", "division", "job", "bank", "employee"}

Break ==
    \E repository \in Repositories \ down :
        /\ Cardinality(down) < MaxDown
        /\ down' = down \cup {repository}
        /\ UNCHANGED <<organizations, payrolls, divisions, jobs, banks, employees, issued, last,
                       pending>>

Repair ==
    \E repository \in down :
        /\ down' = down \ {repository}
        /\ UNCHANGED <<organizations, payrolls, divisions, jobs, banks, employees, issued, last,
                       pending>>

(***************************************************************************)
(* Specifications                                                          *)
(***************************************************************************)
(* All six services: the entities are set up plainly and in the order of   *)
(* the ownership chain; every service reads, and every service is asked    *)
(* for updates: of the nullable fields, and of no field at all.            *)
Next ==
    \/ DoOrganizationCreate(OrganizationSetup)
    \/ issued.organization = MaxOrganizations /\ DoPayrollCreate({1}, PayrollSetup)
    \/ issued.payroll = MaxPayrolls /\ DoDivisionCreate(DivisionSetup)
    \/ issued.division = MaxDivisions /\ DoJobCreate({1}, {1}, JobSetup)
    \/ issued.job = MaxJobs /\ DoBankCreate(OrganizationIds, BankSetup)
    \/ issued.bank = MaxBanks /\ DoEmployeeCreate(EmployeeSetup)
    \/ DoOrganizationGet
    \/ DoPayrollGet
    \/ DoDivisionGet
    \/ DoJobGet
    \/ DoBankGet
    \/ DoEmployeeGet
    \/ DoOrganizationUpdate(Only(OrganizationUpdateInputs, {}))
    \/ DoPayrollUpdate(Only(PayrollUpdateInputs, {}))
    \/ DoDivisionUpdate(Only(DivisionUpdateInputs, {"parent_division_id"}))
    \/ DoJobUpdate(Only(JobUpdateInputs, {}))
    \/ DoBankUpdate(Only(BankUpdateInputs, {}))
    \/ DoEmployeeUpdate(Only(EmployeeUpdateInputs, {"termination_date"}))

Spec == Init /\ [][Next]_vars

(* The division service, over organizations and payrolls set up plainly.   *)
NextDivision ==
    \/ DoOrganizationCreate(OrganizationSetup)
    \/ DoPayrollCreate({1}, PayrollSetup)
    \/ DoDivisionCreate(DivisionCreateInputs)
    \/ DoDivisionGet
    \/ DoDivisionUpdate(DivisionUpdateInputs)
    \/ DoDivisionDelete

SpecDivision == Init /\ [][NextDivision]_vars

(* The employee service.  The entities it rests on are set up plainly and  *)
(* in the order of the ownership chain: organizations, then payrolls (of   *)
(* the first organization), then divisions and the job (of the first       *)
(* payroll), then the bank (of either organization).                       *)
NextEmployee ==
    \/ DoOrganizationCreate(OrganizationSetup)
    \/ issued.organization = MaxOrganizations /\ DoPayrollCreate({1}, PayrollSetup)
    \/ /\ issued.payroll = MaxPayrolls
       /\ DoDivisionCreate({params \in DivisionSetup : params.payroll_id = 1})
    \/ issued.division = MaxDivisions /\ DoJobCreate({1}, {1}, JobSetup)
    \/ issued.job = MaxJobs /\ DoBankCreate(OrganizationIds, BankSetup)
    \/ DoEmployeeCreate(EmployeeCreateInputs)
    \/ DoEmployeeGet
    \/ DoEmployeeUpdate(EmployeeUpdateInputs)
    \/ DoEmployeeDelete

SpecEmployee == Init /\ [][NextEmployee]_vars

(* The life of the entities: set up plainly in the order of the ownership  *)
(* chain, then deleted, in any order, through every service.               *)
NextLifecycle ==
    \/ DoOrganizationCreate(OrganizationSetup)
    \/ issued.organization = MaxOrganizations /\ DoPayrollCreate({1}, PayrollSetup)
    \/ issued.payroll = MaxPayrolls /\ DoDivisionCreate({params \in DivisionSetup : params.payroll_id = 1})
    \/ issued.division = MaxDivisions /\ DoJobCreate({1}, {1}, JobSetup)
    \/ issued.job = MaxJobs /\ DoBankCreate({1}, BankSetup)
    \/ issued.bank = MaxBanks /\ DoEmployeeCreate({params \in EmployeeSetup : params.hire_date = 1 /\ params.termination_date = None})
    \/ DoOrganizationDelete
    \/ DoPayrollDelete
    \/ DoDivisionDelete
    \/ DoJobDelete
    \/ DoBankDelete
    \/ DoEmployeeDelete

SpecLifecycle == Init /\ [][NextLifecycle]_vars

(* Listing: entities of differing names are set up in the order of the    *)
(* ownership chain, and every service is asked for its list.               *)
NextListing ==
    \/ DoOrganizationCreate(OrganizationNamed)
    \/ issued.organization = MaxOrganizations /\ DoPayrollCreate({1}, PayrollNamed)
    \/ issued.payroll = MaxPayrolls /\ DoDivisionCreate(DivisionNamed)
    \/ issued.division = MaxDivisions /\ DoJobCreate({1}, {1}, JobSetup)
    \/ issued.job = MaxJobs /\ DoBankCreate({1}, BankSetup)
    \/ issued.bank = MaxBanks /\ issued.employee < MaxEmployees /\ DoEmployeeCreate(EmployeeNamed)
    \/ DoOrganizationList
    \/ DoPayrollList
    \/ DoDivisionList
    \/ DoJobList
    \/ DoBankList
    \/ DoEmployeeList

SpecListing == Init /\ [][NextListing]_vars

(* Creation: every service creates, in the order of the ownership chain,  *)
(* from requests whose texts and numbers vary; at most MaxVariety of the   *)
(* stored entities are not plain.                                          *)
NextCreate ==
    \/ DoOrganizationCreate(OrganizationVaried) /\ Variety' <= MaxVariety
    \/ issued.organization = MaxOrganizations /\ DoPayrollCreate({1}, PayrollVaried) /\ Variety' <= MaxVariety
    \/ issued.payroll = MaxPayrolls /\ DoDivisionCreate(DivisionVaried) /\ Variety' <= MaxVariety
    \/ issued.division = MaxDivisions /\ DoJobCreate({1}, {1}, JobVaried) /\ Variety' <= MaxVariety
    \/ issued.job = MaxJobs /\ DoBankCreate({1}, BankVaried) /\ Variety' <= MaxVariety
    \/ issued.bank = MaxBanks /\ DoEmployeeCreate(EmployeeVaried) /\ Variety' <= MaxVariety

SpecCreate == Init /\ [][NextCreate]_vars

(* The payroll service in full, over organizations that come and go.       *)
NextPayroll ==
    \/ DoOrganizationCreate(OrganizationSetup)
    \/ DoOrganizationDelete
    \/ DoPayrollCreate(OrganizationIds, PayrollCreateInputs)
    \/ DoPayrollGet
    \/ DoPayrollList
    \/ DoPayrollUpdate(PayrollUpdateInputs)
    \/ DoPayrollDelete

SpecPayroll == Init /\ [][NextPayroll]_vars

(* The organization service in full.                                      *)
NextOrganization ==
    \/ DoOrganizationCreate(OrganizationCreateInputs)
    \/ DoOrganizationGet
    \/ DoOrganizationList
    \/ DoOrganizationUpdate(OrganizationUpdateInputs)
    \/ DoOrganizationDelete

SpecOrganization == Init /\ [][NextOrganization]_vars

(* The job service in full, over payrolls of either organization.         *)
NextJob ==
    \/ DoOrganizationCreate(OrganizationSetup)
    \/ issued.organization = MaxOrganizations /\ DoPayrollCreate(OrganizationIds, PayrollSetup)
    \/ DoJobCreate(OrganizationIds, PayrollIds, JobCreateInputs)
    \/ DoJobGet
    \/ DoJobList
    \/ DoJobUpdate(JobUpdateInputs)
    \/ DoJobDelete

SpecJob == Init /\ [][NextJob]_vars

(* Calls side by side: over a plain setup, one create at a time is taken   *)
(* in two steps, and the deletes of the services run in between.           *)
OneEmployee == {params \in EmployeeSetup : params.hire_date = 1 /\ params.termination_date = None}

NextInterleaved ==
    \/ DoOrganizationCreate(OrganizationSetup)
    \/ issued.organization = MaxOrganizations /\ DoPayrollCreate({1}, PayrollSetup)
    \/ issued.payroll = MaxPayrolls /\ DoDivisionCreate({params \in DivisionSetup : params.payroll_id = 1})
    \/ issued.division = MaxDivisions /\ DoJobCreate({1}, {1}, JobSetup)
    \/ issued.job = MaxJobs /\ DoBankCreate({1}, BankSetup)
    \/ issued.organization = MaxOrganizations /\ BeginPayrollCreate({1}, PayrollSetup)
    \/ issued.payroll = MaxPayrolls /\ BeginDivisionCreate({params \in DivisionSetup : params.payroll_id = 1})
    \/ issued.division = MaxDivisions /\ BeginJobCreate({1}, {1}, JobSetup)
    \/ issued.job = MaxJobs /\ BeginBankCreate({1}, BankSetup)
    \/ issued.bank = MaxBanks /\ BeginEmployeeCreate(OneEmployee)
    \/ Complete
    \/ DoOrganizationDelete
    \/ DoPayrollDelete
    \/ DoDivisionDelete
    \/ DoJobDelete
    \/ DoBankDelete

SpecInterleaved == Init /\ [][NextInterleaved]_vars

(* References left behind: over a plain setup an employee is created, its  *)
(* job and its bank are deleted, and the employee is updated.              *)
NextReferences ==
    \/ DoOrganizationCreate(OrganizationSetup)
    \/ issued.organization = MaxOrganizations /\ DoPayrollCreate({1}, PayrollSetup)
    \/ issued.payroll = MaxPayrolls /\ DoDivisionCreate({params \in DivisionSetup : params.payroll_id = 1})
    \/ issued.division = MaxDivisions /\ DoJobCreate({1}, {1}, JobSetup)
    \/ issued.job = MaxJobs /\ DoBankCreate({1}, BankSetup)
    \/ issued.bank = MaxBanks /\ DoEmployeeCreate(OneEmployee)
    \/ DoJobDelete
    \/ DoBankDelete
    \/ DoEmployeeUpdate(EmployeeUpdateInputs)

SpecReferences == Init /\ [][NextReferences]_vars

(* Failing repositories: the entities are set up plainly in the order of   *)
(* the ownership chain and read, while one repository at a time fails.     *)
NextFaults ==
    \/ DoOrganizationCreate(OrganizationSetup)
    \/ issued.organization = MaxOrganizations /\ DoPayrollCreate({1}, PayrollSetup)
    \/ issued.payroll = MaxPayrolls /\ DoDivisionCreate({params \in DivisionSetup : params.payroll_id = 1})
    \/ issued.division = MaxDivisions /\ DoJobCreate({1}, {1}, JobSetup)
    \/ issued.job = MaxJobs /\ DoBankCreate({1}, BankSetup)
    \/ issued.bank = MaxBanks /\ DoEmployeeCreate(OneEmployee)
    \/ DoPayrollGet
    \/ DoEmployeeGet
    \/ Break
    \/ Repair

SpecFaults == Init /\ [][NextFaults]_vars

(***************************************************************************)
(* Properties of all services                                              *)
(***************************************************************************)
PayrollOwned(organization_id, payroll_id) ==
    /\ payroll_id \in DOMAIN payrolls
    /\ payrolls[payroll_id].organization_id = organization_id

DivisionOwned(organization_id, payroll_id, division_id) ==
    /\ division_id \in DOMAIN divisions
    /\ divisions[division_id].payroll_id = payroll_id
    /\ PayrollOwned(organization_id, payroll_id)

JobOwned(organization_id, payroll_id, job_id) ==
    /\ job_id \in DOMAIN jobs
    /\ jobs[job_id].payroll_id = payroll_id
    /\ PayrollOwned(organization_id, payroll_id)

BankOwned(organization_id, bank_id) ==
    /\ bank_id \in DOMAIN banks
    /\ banks[bank_id].organization_id = organization_id

EmployeeOwned(organization_id, payroll_id, division_id, employee_id) ==
    /\ employee_id \in DOMAIN employees
    /\ employees[employee_id].division_id = division_id
    /\ employees[employee_id].payroll_id = payroll_id
    /\ DivisionOwned(organization_id, payroll_id, division_id)

(* C1: for a payroll, division, job, bank or employee that is stored, get  *)
(* under a scope that is not its ownership chain returns Ok(None), which   *)
(* is also what get returns under that scope for an id that is not stored. *)
C1_WrongScopeIsAbsent ==
    \A o \in OrganizationIds, p \in PayrollIds, d \in DivisionIds :
        /\ p \in DOMAIN payrolls /\ ~PayrollOwned(o, p) =>
              /\ PayrollGet(o, p) = Ok(None)
              /\ PayrollGet(o, p) = PayrollGet(o, MaxPayrolls + 1)
        /\ d \in DOMAIN divisions /\ ~DivisionOwned(o, p, d) =>
              /\ DivisionGet(d) = Ok(None)
              /\ DivisionGet(d) = DivisionGet(MaxDivisions + 1)
        /\ \A j \in DOMAIN jobs : ~JobOwned(o, p, j) =>
              /\ JobGet(o, p, j) = Ok(None)
              /\ JobGet(o, p, j) = JobGet(o, p, MaxJobs + 1)
        /\ \A b \in DOMAIN banks : ~BankOwned(o, b) =>
              /\ BankGet(o, b) = Ok(None)
              /\ BankGet(o, b) = BankGet(o, MaxBanks + 1)
        /\ \A e \in DOMAIN employees : ~EmployeeOwned(o, p, d, e) =>
              /\ EmployeeGet(o, p, d, e) = Ok(None)
              /\ EmployeeGet(o, p, d, e) = EmployeeGet(o, p, d, MaxEmployees + 1)

(* C5: an update that succeeds leaves a division's parent (an employee's   *)
(* termination date) as it was when the request leaves the field out,      *)
(* clears it when the request gives null, and stores v when the request    *)
(* gives the value v.                                                      *)
C5_TriStateUpdate ==
    /\ \A id \in DivisionIds : \A params \in DivisionUpdateInputs :
          LET r == DivisionUpdate(id, params) IN
          IsOk(r.res) /\ IsSome(r.res.val) =>
              r.store[id].parent_division_id =
                  IF IsNone(params.parent_division_id)
                  THEN divisions[id].parent_division_id
                  ELSE IF IsNone(Unwrap(params.parent_division_id)) THEN None
                  ELSE Some(Unwrap(Unwrap(params.parent_division_id)))
    /\ \A o \in OrganizationIds, p \in PayrollIds, d \in DivisionIds, id \in EmployeeIds :
          \A params \in EmployeeUpdateInputs :
              LET r == EmployeeUpdate(o, p, d, id, params) IN
              IsOk(r.res) /\ IsSome(r.res.val) =>
                  r.store[id].termination_date =
                      IF IsNone(params.termination_date)
                      THEN employees[id].termination_date
                      ELSE IF IsNone(Unwrap(params.termination_date)) THEN None
                      ELSE Some(Unwrap(Unwrap(params.termination_date)))

(* An update gave a termination date, and the employee is stored with it.  *)
C5_Witness ==
    /\ last.op = "employee_update"
    /\ last.res = "some"
    /\ IsSome(last.note)
    /\ IsSome(Unwrap(last.note))
    /\ employees[last.id].termination_date = Unwrap(last.note)

(* C6: for each of the six services, an update request that supplies no    *)
(* field fails with the Validation error "no fields supplied for update"   *)
(* and writes nothing, whatever id and scope it names.                     *)
C6_NoFieldsIsValidation ==
    LET refused(r, store) ==
            r.res = Validation("no fields supplied for update") /\ r.store = store
    IN
    \A o \in OrganizationIds, p \in PayrollIds, d \in DivisionIds :
        /\ \A params \in Only(OrganizationUpdateInputs, {}) :
              refused(OrganizationUpdate(o, params), organizations)
        /\ \A params \in Only(PayrollUpdateInputs, {}) :
              refused(PayrollUpdate(o, p, params), payrolls)
        /\ \A params \in Only(DivisionUpdateInputs, {}) :
              refused(DivisionUpdate(d, params), divisions)
        /\ \A id \in JobIds : \A params \in Only(JobUpdateInputs, {}) :
              refused(JobUpdate(o, p, id, params), jobs)
        /\ \A id \in BankIds : \A params \in Only(BankUpdateInputs, {}) :
              refused(BankUpdate(o, id, params), banks)
        /\ \A id \in EmployeeIds : \A params \in Only(EmployeeUpdateInputs, {}) :
              refused(EmployeeUpdate(o, p, d, id, params), employees)

(* A stored employee was sent an update without fields, and the update    *)
(* was refused.                                                            *)
C6_Witness ==
    /\ last.op = "employee_update"
    /\ last.res = "validation"
    /\ last.msg = "no fields supplied for update"
    /\ last.id \in DOMAIN employees

(***************************************************************************)
(* Properties of the division service                                      *)
(***************************************************************************)
Blank(text) == Trim(text) = <<>>

DivisionParent(d) ==
    IF d \in DOMAIN divisions /\ IsSome(divisions[d].parent_division_id)
    THEN {Unwrap(divisions[d].parent_division_id)}
    ELSE {}

(* The divisions reached from `from` by following at most n parent links.  *)
RECURSIVE DivisionAncestors(_, _)
DivisionAncestors(from, n) ==
    IF n = 0 THEN from
    ELSE DivisionAncestors(from \cup UNION {DivisionParent(d) : d \in from}, n - 1)

(* C2: every stored division whose parent is set has a parent other than   *)
(* itself, and that parent is stored with the same payroll_id.             *)
C2_ParentInSamePayroll ==
    \A d \in DOMAIN divisions :
        \A p \in DivisionParent(d) :
            /\ p # d
            /\ p \in DOMAIN divisions
            /\ divisions[p].payroll_id = divisions[d].payroll_id

(* C3: following parent links from a stored division never returns to it.  *)
C3_DivisionsFormATree ==
    \A d \in DOMAIN divisions :
        d \notin DivisionAncestors(DivisionParent(d), MaxDivisions)

CreateNamesForeignParent(params) ==
    /\ IsSome(params.parent_division_id)
    /\ Unwrap(params.parent_division_id) \in DOMAIN divisions
    /\ divisions[Unwrap(params.parent_division_id)].payroll_id # params.payroll_id

(* The parent an update request names is another stored division, under    *)
(* another payroll than the target payroll of the update.                  *)
UpdateNamesForeignParent(id, params) ==
    /\ id \in DOMAIN divisions
    /\ IsSome(params.parent_division_id)
    /\ IsSome(Unwrap(params.parent_division_id))
    /\ LET p == Unwrap(Unwrap(params.parent_division_id)) IN
       /\ p # id
       /\ p \in DOMAIN divisions
       /\ divisions[p].payroll_id # UnwrapOr(params.payroll_id, divisions[id].payroll_id)

(* C8 as stated: a create or update naming a stored parent of another      *)
(* payroll than the target payroll fails with a Validation error, and      *)
(* nothing is inserted or modified.                                        *)
C8_ForeignParentIsValidation ==
    /\ \A params \in DivisionCreateInputs :
          CreateNamesForeignParent(params) =>
              LET r == DivisionCreate(issued.division + 1, params) IN
              r.res.kind = "validation" /\ r.store = divisions
    /\ \A id \in DivisionIds : \A params \in DivisionUpdateInputs :
          UpdateNamesForeignParent(id, params) =>
              LET r == DivisionUpdate(id, params) IN
              r.res.kind = "validation" /\ r.store = divisions

(* C8: a create or update naming a stored parent of another payroll than   *)
(* the target payroll inserts and modifies nothing.  When the target       *)
(* payroll is stored the failure is a Validation error (on create, after   *)
(* the texts are normalized: a blank text is reported first); when the     *)
(* request names a payroll that is not stored it is NotFound.  A parent    *)
(* that is not stored is NotFound under a stored target payroll.           *)
C8_ForeignParentRejected ==
    /\ \A params \in DivisionCreateInputs :
          LET r == DivisionCreate(issued.division + 1, params)
              texts == ~Blank(params.name) /\ ~Blank(params.description)
                          /\ ~Blank(params.budget_code)
          IN  /\ CreateNamesForeignParent(params) =>
                    /\ r.store = divisions
                    /\ r.res.kind = IF ~texts \/ params.payroll_id \in DOMAIN payrolls
                                    THEN "validation" ELSE "not_found"
                    /\ texts /\ params.payroll_id \in DOMAIN payrolls =>
                          r.res = Validation("parent division must belong to the same payroll")
              /\ /\ IsSome(params.parent_division_id)
                 /\ Unwrap(params.parent_division_id) \notin DOMAIN divisions
                 /\ texts
                 /\ params.payroll_id \in DOMAIN payrolls
                 => r.res = NotFound("parent division not found") /\ r.store = divisions
    /\ \A id \in DOMAIN divisions : \A params \in DivisionUpdateInputs :
          LET r == DivisionUpdate(id, params)
              target == IsSome(params.payroll_id) =>
                            Unwrap(params.payroll_id) \in DOMAIN payrolls
          IN  /\ UpdateNamesForeignParent(id, params) =>
                    /\ r.store = divisions
                    /\ r.res = IF target
                               THEN Validation("parent division must belong to the same payroll")
                               ELSE NotFound("payroll not found")
              /\ /\ IsSome(params.parent_division_id)
                 /\ IsSome(Unwrap(params.parent_division_id))
                 /\ Unwrap(Unwrap(params.parent_division_id)) \notin DOMAIN divisions \cup {id}
                 /\ target
                 => r.res = NotFound("parent division not found") /\ r.store = divisions

(* A create and an update were refused for a parent of another payroll:    *)
(* the refused request left a stored division of each of two payrolls.     *)
C8_Witness ==
    /\ last.op \in {"division_create", "division_update"}
    /\ last.res = "validation"
    /\ last.msg = "parent division must belong to the same payroll"
    /\ \E d, e \in DOMAIN divisions : divisions[d].payroll_id # divisions[e].payroll_id

(***************************************************************************)
(* Properties of the employee service                                      *)
(***************************************************************************)
(* C4: every stored employee with a termination date has it on or after    *)
(* the hire date.                                                          *)
C4_TerminationNotBeforeHire ==
    \A e \in DOMAIN employees :
        IsSome(employees[e].termination_date) =>
            Unwrap(employees[e].termination_date) >= employees[e].hire_date

(* The division, job and bank of a create request are those of its scope.  *)
ReferencesValid(organization_id, payroll_id, division_id, params) ==
    /\ DivisionOwned(organization_id, payroll_id, division_id)
    /\ JobOwned(organization_id, payroll_id, params.job_id)
    /\ BankOwned(organization_id, params.bank_id)

FieldsValid(params) ==
    /\ ~Blank(params.id_number)
    /\ ~Blank(params.last_name)
    /\ ~Blank(params.first_name)
    /\ params.hours >= 0

(* C9: a create request with valid references and fields fails with the    *)
(* Validation error of the termination date, storing nothing, when the     *)
(* termination date is before the hire date; with the termination date on  *)
(* the hire date, or none, it succeeds and stores that termination date.   *)
C9_TerminationOnCreate ==
    \A o \in OrganizationIds, p \in PayrollIds, d \in DivisionIds :
        \A params \in EmployeeCreateInputs :
            ReferencesValid(o, p, d, params) /\ FieldsValid(params) =>
                LET id == issued.employee + 1
                    r == EmployeeCreate(id, o, p, d, params)
                IN  IF /\ IsSome(params.termination_date)
                       /\ Unwrap(params.termination_date) < params.hire_date
                    THEN /\ r.res = Validation("termination date cannot be before hire date")
                         /\ r.store = employees
                    ELSE /\ IsOk(r.res)
                         /\ r.res.val.termination_date = params.termination_date
                         /\ id \in DOMAIN r.store
                         /\ r.store[id] = r.res.val
                         /\ \/ IsNone(params.termination_date)
                            \/ Unwrap(params.termination_date) >= params.hire_date

(* A create request was refused for its termination date, the last of the  *)
(* checks of create.                                                       *)
C9_Witness ==
    /\ last.op = "employee_create"
    /\ last.res = "validation"
    /\ last.msg = "termination date cannot be before hire date"

(* C10: a create request naming a bank of another organization than the    *)
(* one of the request fails with NotFound and stores nothing, and so does  *)
(* the request that differs from it in naming a bank that is not stored;   *)
(* with the division and the job those of the scope, the error of both is  *)
(* "bank not found for organization".                                      *)
C10_ForeignBankIsNotFound ==
    \A o \in OrganizationIds, p \in PayrollIds, d \in DivisionIds :
        \A params \in EmployeeCreateInputs :
            /\ params.bank_id \in DOMAIN banks
            /\ banks[params.bank_id].organization_id # o
            => LET id == issued.employee + 1
                   r == EmployeeCreate(id, o, p, d, params)
                   missing == EmployeeCreate(id, o, p, d,
                                             [params EXCEPT !.bank_id = MaxBanks + 1])
               IN  /\ r.res.kind = "not_found"
                   /\ r.store = employees
                   /\ r = missing
                   /\ DivisionOwned(o, p, d) /\ JobOwned(o, p, params.job_id) =>
                          r.res = NotFound("bank not found for organization")

(* A create request was refused for its bank while every bank a request    *)
(* can name was stored: the bank it named is of another organization.      *)
C10_Witness ==
    /\ last.op = "employee_create"
    /\ last.res = "not_found"
    /\ last.msg = "bank not found for organization"
    /\ BankIds \subseteq DOMAIN banks

(***************************************************************************)
(* Properties of the life of the entities                                  *)
(***************************************************************************)
(* C11: after any sequence of creates and deletes, every stored employee's *)
(* job_id is the id of a stored job whose payroll_id is the employee's     *)
(* payroll_id, and its bank_id is the id of a stored bank whose            *)
(* organization_id is the organization of the employee's payroll.          *)
C11_ReferencesResolve ==
    \A e \in DOMAIN employees :
        /\ employees[e].job_id \in DOMAIN jobs
        /\ jobs[employees[e].job_id].payroll_id = employees[e].payroll_id
        /\ employees[e].bank_id \in DOMAIN banks
        /\ employees[e].payroll_id \in DOMAIN payrolls
        /\ banks[employees[e].bank_id].organization_id
               = payrolls[employees[e].payroll_id].organization_id

(* C12: for every entity type, delete of an id that is not stored returns  *)
(* Ok(false), whatever scope the request names, also a scope that does not *)
(* exist.                                                                  *)
C12_DeleteOfUnstoredIsFalse ==
    /\ \A id \in OrganizationIds \ DOMAIN organizations :
           OrganizationDelete(id).res = Ok(FALSE)
    /\ \A organization_id \in OrganizationIds, id \in PayrollIds \ DOMAIN payrolls :
           PayrollDelete(organization_id, id).res = Ok(FALSE)
    /\ \A id \in DivisionIds \ DOMAIN divisions :
           DivisionDelete(id).res = Ok(FALSE)
    /\ \A organization_id \in OrganizationIds, payroll_id \in PayrollIds,
          id \in JobIds \ DOMAIN jobs :
           JobDelete(organization_id, payroll_id, id).res = Ok(FALSE)
    /\ \A organization_id \in OrganizationIds, id \in BankIds \ DOMAIN banks :
           BankDelete(organization_id, id).res = Ok(FALSE)
    /\ \A organization_id \in OrganizationIds, payroll_id \in PayrollIds,
          division_id \in DivisionIds, id \in EmployeeIds \ DOMAIN employees :
           EmployeeDelete(organization_id, payroll_id, division_id, id).res = Ok(FALSE)

(* C13: an update or a delete made for a scope that is not the entity's    *)
(* ownership chain (another organization for a payroll or a bank, another  *)
(* payroll for a division or a job, another division or payroll for an     *)
(* employee) leaves the stored entity as it was.  The division service     *)
(* takes no scope: the call it gets for another payroll is the call it     *)
(* gets for the division's own.                                            *)
C13_WrongScopeLeavesEntity ==
    /\ \A id \in DOMAIN payrolls :
       \A organization_id \in OrganizationIds \ {payrolls[id].organization_id} :
           /\ PayrollDelete(organization_id, id).store = payrolls
           /\ \A params \in PayrollUpdateInputs :
                  PayrollUpdate(organization_id, id, params).store = payrolls
    /\ \A id \in DOMAIN banks :
       \A organization_id \in OrganizationIds \ {banks[id].organization_id} :
           /\ BankDelete(organization_id, id).store = banks
           /\ \A params \in BankUpdateInputs :
                  BankUpdate(organization_id, id, params).store = banks
    /\ \A id \in DOMAIN divisions :
       \A payroll_id \in PayrollIds \ {divisions[id].payroll_id} :
           /\ DivisionDelete(id).store = divisions
           /\ \A params \in DivisionUpdateInputs :
                  IsNone(params.payroll_id) => DivisionUpdate(id, params).store = divisions
    /\ \A id \in DOMAIN jobs :
       \A organization_id \in OrganizationIds,
          payroll_id \in PayrollIds \ {jobs[id].payroll_id} :
           /\ JobDelete(organization_id, payroll_id, id).store = jobs
           /\ \A params \in JobUpdateInputs :
                  JobUpdate(organization_id, payroll_id, id, params).store = jobs
    /\ \A id \in DOMAIN employees :
       \A organization_id \in OrganizationIds, payroll_id \in PayrollIds,
          division_id \in DivisionIds :
           (payroll_id # employees[id].payroll_id \/ division_id # employees[id].division_id)
           => /\ EmployeeDelete(organization_id, payroll_id, division_id, id).store = employees
              /\ \A params \in EmployeeUpdateInputs :
                     EmployeeUpdate(organization_id, payroll_id, division_id, id, params).store
                         = employees

(***************************************************************************)
(* Properties of listing                                                   *)
(***************************************************************************)
Ascending(list, key) ==
    \A i, j \in DOMAIN list : i < j => KeyCmp(key[list[i]], key[list[j]]) <= 0

(* The list holds each entity of `expected` once, and nothing else.        *)
Exactly(list, expected) == Rows(list) = expected /\ Len(list) = Cardinality(expected)

Stored(store) == {store[id] : id \in DOMAIN store}

(* C14: whatever order the repository hands its rows over in, every list   *)
(* returns exactly the stored entities of the scope it is asked for (all   *)
(* organizations; the payrolls and banks of the organization; the          *)
(* divisions and jobs of the payroll; the employees of the division), in   *)
(* ascending order of the sort key.                                        *)
C14_ListIsScopeSorted ==
    /\ \A scan \in Scans(DOMAIN organizations) :
           LET r == OrganizationList(scan) IN
           /\ IsOk(r)
           /\ Exactly(r.val, Stored(organizations))
           /\ Ascending(r.val, [o \in Rows(r.val) |-> <<o.name>>])
    /\ \A organization_id \in DOMAIN organizations, scan \in Scans(DOMAIN payrolls) :
           LET r == PayrollList(organization_id, scan) IN
           /\ IsOk(r)
           /\ Exactly(r.val, {p \in Stored(payrolls) : p.organization_id = organization_id})
           /\ Ascending(r.val, [p \in Rows(r.val) |-> <<p.name>>])
    /\ \A payroll_id \in DOMAIN payrolls, scan \in Scans(DOMAIN divisions) :
           LET r == DivisionList(scan) IN
           /\ IsOk(r)
           /\ Exactly(r.val, {d \in Stored(divisions) : d.payroll_id = payroll_id})
           /\ Ascending(r.val, [d \in Rows(r.val) |-> <<d.name>>])
    /\ \A organization_id \in OrganizationIds, payroll_id \in PayrollIds,
          scan \in Scans(DOMAIN jobs) :
           PayrollOwned(organization_id, payroll_id) =>
           LET r == JobList(organization_id, payroll_id, scan) IN
           /\ IsOk(r)
           /\ Exactly(r.val, {j \in Stored(jobs) : j.payroll_id = payroll_id})
           /\ Ascending(r.val, [j \in Rows(r.val) |-> <<j.job_title>>])
    /\ \A organization_id \in DOMAIN organizations, scan \in Scans(DOMAIN banks) :
           LET r == BankList(organization_id, scan) IN
           /\ IsOk(r)
           /\ Exactly(r.val, {b \in Stored(banks) : b.organization_id = organization_id})
           /\ Ascending(r.val, [b \in Rows(r.val) |-> <<b.name>>])
    /\ \A organization_id \in OrganizationIds, payroll_id \in PayrollIds,
          division_id \in DivisionIds, scan \in Scans(DOMAIN employees) :
           DivisionOwned(organization_id, payroll_id, division_id) =>
           LET r == EmployeeList(organization_id, payroll_id, division_id, scan) IN
           /\ IsOk(r)
           /\ Exactly(r.val, {e \in Stored(employees) :
                                 e.division_id = division_id /\ e.payroll_id = payroll_id})
           /\ Ascending(r.val, [e \in Rows(r.val) |-> <<e.last_name, e.first_name>>])

(***************************************************************************)
(* Properties of creation                                                  *)
(***************************************************************************)
TextFields ==
    {"name", "description", "budget_code", "job_title", "id_number", "last_name", "first_name"}

(* The request with its texts as normalisation leaves them.                *)
Normalized(params) ==
    [f \in DOMAIN params |-> IF f \in TextFields THEN Trim(params[f]) ELSE params[f]]

Echo(params, normalized) == IF normalized THEN Normalized(params) ELSE params

(* A step that is a successful create is followed by a get, of the new id  *)
(* in the scope of the create, that returns the fields of the request (as  *)
(* given, or normalized), the scope, and an id that no stored entity had.  *)
(* The new id is bound as a value, so that the get, which is made in the   *)
(* state after the step, is of that id.                                    *)
RoundTrips(normalized) ==
    /\ \A params \in OrganizationVaried :
           \A id \in {issued.organization + 1} :
           (issued'.organization = id /\ organizations' = OrganizationCreate(id, params).store)
           => /\ id \notin DOMAIN organizations
              /\ OrganizationGet(id)' = Ok(Some([id |-> id] @@ Echo(params, normalized)))
    /\ \A organization_id \in OrganizationIds, params \in PayrollVaried :
           \A id \in {issued.payroll + 1} :
           (issued'.payroll = id /\ payrolls' = PayrollCreate(id, organization_id, params).store)
           => /\ id \notin DOMAIN payrolls
              /\ PayrollGet(organization_id, id)'
                     = Ok(Some([id |-> id, organization_id |-> organization_id]
                               @@ Echo(params, normalized)))
    /\ \A params \in DivisionVaried :
           \A id \in {issued.division + 1} :
           (issued'.division = id /\ divisions' = DivisionCreate(id, params).store)
           => /\ id \notin DOMAIN divisions
              /\ DivisionGet(id)' = Ok(Some([id |-> id] @@ Echo(params, normalized)))
    /\ \A organization_id \in OrganizationIds, payroll_id \in PayrollIds, params \in JobVaried :
           \A id \in {issued.job + 1} :
           (issued'.job = id /\ jobs' = JobCreate(id, organization_id, payroll_id, params).store)
           => /\ id \notin DOMAIN jobs
              /\ JobGet(organization_id, payroll_id, id)'
                     = Ok(Some([id |-> id, payroll_id |-> payroll_id]
                               @@ Echo(params, normalized)))
    /\ \A organization_id \in OrganizationIds, params \in BankVaried :
           \A id \in {issued.bank + 1} :
           (issued'.bank = id /\ banks' = BankCreate(id, organization_id, params).store)
           => /\ id \notin DOMAIN banks
              /\ BankGet(organization_id, id)'
                     = Ok(Some([id |-> id, organization_id |-> organization_id]
                               @@ Echo(params, normalized)))
    /\ \A organization_id \in OrganizationIds, payroll_id \in PayrollIds,
          division_id \in DivisionIds, params \in EmployeeVaried :
           \A id \in {issued.employee + 1} :
           (/\ issued'.employee = id
            /\ employees' = EmployeeCreate(id, organization_id, payroll_id, division_id,
                                           params).store)
           => /\ id \notin DOMAIN employees
              /\ EmployeeGet(organization_id, payroll_id, division_id, id)'
                     = Ok(Some([id |-> id, division_id |-> division_id,
                                payroll_id |-> payroll_id] @@ Echo(params, normalized)))

(* C15, as stated: a successful create followed at once by get of the      *)
(* returned id in the scope of the create returns an entity equal in every *)
(* field to the create input, with an id that no stored entity had.        *)
C15_RoundTripAsGiven == [][RoundTrips(FALSE)]_vars

(* C15, amended: a successful create followed at once by get of the        *)
(* returned id in the scope of the create returns an entity whose texts    *)
(* are the texts of the create input trimmed and whose other fields are    *)
(* those of the input, with an id that no stored entity had.               *)
C15_RoundTripNormalized == [][RoundTrips(TRUE)]_vars

(* An employee was created from a request with a padded last name, and is  *)
(* stored, and returned by get in its scope, with the name trimmed.        *)
C15_Witness ==
    /\ last.op = "employee_create"
    /\ last.res = "created"
    /\ last.id \in DOMAIN employees
    /\ employees[last.id].last_name = Trim(Padded)
    /\ \E organization_id \in OrganizationIds :
           EmployeeGet(organization_id, employees[last.id].payroll_id,
                       employees[last.id].division_id, last.id)
               = Ok(Some(employees[last.id]))

(***************************************************************************)
(* Properties of the payroll service                                       *)
(***************************************************************************)
(* C16: every create, list, update and delete of the payroll service that  *)
(* names an organization that is not stored fails with NotFound, also the  *)
(* update and the delete of a payroll that is stored under that            *)
(* organization.                                                           *)
C16_MissingOrganizationIsNotFound ==
    \A organization_id \in OrganizationIds \ DOMAIN organizations :
        /\ \A params \in PayrollCreateInputs :
               PayrollCreate(issued.payroll + 1, organization_id, params).res.kind = "not_found"
        /\ \A scan \in Scans(DOMAIN payrolls) :
               PayrollList(organization_id, scan).kind = "not_found"
        /\ \A id \in PayrollIds :
               /\ PayrollDelete(organization_id, id).res.kind = "not_found"
               /\ \A params \in PayrollUpdateInputs :
                      PayrollUpdate(organization_id, id, params).res.kind = "not_found"

(***************************************************************************)
(* Properties of ownership                                                 *)
(***************************************************************************)
(* The entities stored before and after the step agree on `field`.         *)
Keeps(store, after, field) ==
    \A id \in DOMAIN store \cap DOMAIN after : after[id][field] = store[id][field]

C18_OtherFieldAloneIsValidation ==
    \A id \in DivisionIds, params \in DivisionUpdateInputs :
        (/\ IsNone(params.name)
         /\ IsNone(params.description)
         /\ IsNone(params.budget_code)
         /\ IsNone(params.parent_division_id))
        => DivisionUpdate(id, params).res.kind = "validation"

(***************************************************************************)
(* Properties of the organization service                                  *)
(***************************************************************************)
(* C19: an update of an organization with a name that is not blank and an  *)
(* id that is not stored returns Ok(None) and leaves the store as it was   *)
(* (no organization is created); an update with a name that trims to       *)
(* empty returns Validation, and leaves the store as it was, whether the   *)
(* id is stored or not.                                                    *)
C19_UpdateNeverInserts ==
    \A id \in OrganizationIds, params \in OrganizationUpdateInputs :
        IsSome(params.name) =>
        LET r == OrganizationUpdate(id, params) IN
        /\ Blank(Unwrap(params.name))
           => r.res.kind = "validation" /\ r.store = organizations
        /\ (~Blank(Unwrap(params.name)) /\ id \notin DOMAIN organizations)
           => r.res = Ok(None) /\ r.store = organizations

(* While another organization is stored, an update that passed the checks  *)
(* of its name was made of an id that is not stored, and returned none.    *)
C19_Witness ==
    /\ last.op = "organization_update"
    /\ last.res = "none"
    /\ last.id \notin DOMAIN organizations
    /\ organizations # Empty

(***************************************************************************)
(* Properties of the job service                                           *)
(***************************************************************************)
PayrollNotOwned == NotFound("payroll not found for organization")

(* Under a scope whose payroll is not a payroll of the organization,       *)
(* create, get, list and delete fail with the NotFound of the ownership    *)
(* check and leave the jobs as they were, whatever the request carries     *)
(* and whether the job is stored or not; so does every update of Updates.  *)
ScopeIsCheckedFirst(Updates) ==
    \A organization_id \in OrganizationIds, payroll_id \in PayrollIds :
        ~PayrollOwned(organization_id, payroll_id) =>
        /\ \A params \in JobCreateInputs :
               JobCreate(issued.job + 1, organization_id, payroll_id, params)
                   = Done(PayrollNotOwned, jobs)
        /\ \A scan \in Scans(DOMAIN jobs) :
               JobList(organization_id, payroll_id, scan) = PayrollNotOwned
        /\ \A id \in JobIds :
               /\ JobGet(organization_id, payroll_id, id) = PayrollNotOwned
               /\ JobDelete(organization_id, payroll_id, id) = Done(PayrollNotOwned, jobs)
               /\ \A params \in Updates :
                      JobUpdate(organization_id, payroll_id, id, params)
                          = Done(PayrollNotOwned, jobs)

(* C20, as stated: every operation of the job service under a payroll that *)
(* is not the organization's fails with NotFound from the ownership check, *)
(* before any other validation of the request and any access to the jobs.  *)
C20_ScopeCheckedBeforeAll == ScopeIsCheckedFirst(JobUpdateInputs)

(* C20, amended: every operation of the job service under a payroll that   *)
(* is not the organization's fails with NotFound from the ownership check, *)
(* before any other validation of the request and any access to the jobs,  *)
(* except an update that supplies no field, which fails with Validation    *)
(* before the ownership check is made.                                     *)
C20_ScopeCheckedAfterNoFields ==
    /\ ScopeIsCheckedFirst({params \in JobUpdateInputs : Supplied(params) > 0})
    /\ \A organization_id \in OrganizationIds, payroll_id \in PayrollIds, id \in JobIds :
           JobUpdate(organization_id, payroll_id, id, [job_title |-> None, salary |-> None])
               = Done(Validation("no fields supplied for update"), jobs)

(* A job is stored, and the latest call, an update of it under a scope     *)
(* whose payroll is not the organization's, failed with NotFound.          *)
C20_Witness ==
    /\ last.op = "job_update"
    /\ last.res = "not_found"
    /\ last.msg = "payroll not found for organization"
    /\ last.id \in DOMAIN jobs

StoreOf(service) ==
    CASE service = "payroll" -> payrolls
      [] service = "division" -> divisions
      [] service = "job" -> jobs
      [] service = "bank" -> banks
      [] service = "employee" -> employees

Landed(call) ==
    /\ call.row.id \in DOMAIN StoreOf(call.service)
    /\ StoreOf(call.service)[call.row.id] = call.row
    /\ last.res = "created"

Services == {"payroll", "division", "job", "bank", "employee"}

(* What stays of the rows of a service over a step: a row is still stored  *)
(* as it was, or it is the row that a delete of that service has removed.  *)
Kept(service) ==
    \A store \in {StoreOf(service)} : \A id \in DOMAIN store :
        \/ id \in DOMAIN StoreOf(service)' /\ StoreOf(service)'[id] = store[id]
        \/ last'.op = service \o "_delete" /\ last'.id = id

(* C21: a create whose checks have passed writes its row whatever has been *)
(* deleted since, also when a parent the row refers to is no longer        *)
(* stored; and no step of another call changes or removes a stored row of  *)
(* a child service, whether the parents it refers to are stored or not.    *)
C21_WriteFollowsCheckUnchecked ==
    [][/\ \A call \in {pending} :
              call # None /\ pending' = None => Landed(Unwrap(call))'
       /\ \A service \in Services : Kept(service)]_vars

C21_Witness ==
    /\ last.op = "payroll_create" /\ last.res = "created"
    /\ last.id \in DOMAIN payrolls
    /\ payrolls[last.id].organization_id \notin DOMAIN organizations

(* A create that is refused: it returns an error of the kind given and     *)
(* leaves the store of its service as it is.                               *)
Refused(r, kind, store) == r.res.kind = kind /\ r.store = store

(* The creates of every service that name a parent that is not stored,     *)
(* each refused with the kind that Kind gives for its service and texts.   *)
OrphanCreatesRefused(Kind(_, _)) ==
    /\ \A organization_id \in OrganizationIds \ DOMAIN organizations :
          /\ \A params \in PayrollCreateInputs :
                Refused(PayrollCreate(issued.payroll + 1, organization_id, params),
                        Kind("payroll", {params.name, params.description}), payrolls)
          /\ \A params \in BankCreateInputs :
                Refused(BankCreate(issued.bank + 1, organization_id, params),
                        Kind("bank", {params.name}), banks)
    /\ \A params \in DivisionCreateInputs :
          params.payroll_id \notin DOMAIN payrolls =>
              Refused(DivisionCreate(issued.division + 1, params),
                      Kind("division", {params.name, params.description, params.budget_code}),
                      divisions)
    /\ \A organization_id \in OrganizationIds, payroll_id \in PayrollIds \ DOMAIN payrolls :
          \A params \in JobCreateInputs :
              Refused(JobCreate(issued.job + 1, organization_id, payroll_id, params),
                      Kind("job", {params.job_title}), jobs)
    /\ \A organization_id \in OrganizationIds, payroll_id \in PayrollIds,
          division_id \in DivisionIds \ DOMAIN divisions :
          \A params \in EmployeeCreateInputs :
              Refused(EmployeeCreate(issued.employee + 1, organization_id, payroll_id,
                                     division_id, params),
                      Kind("employee", {params.id_number, params.last_name,
                                        params.first_name}), employees)

AlwaysNotFound(service, texts) == "not_found"

TextsFirst(service, texts) ==
    IF service \in {"payroll", "bank", "division"} /\ \E text \in texts : Blank(text)
    THEN "validation"
    ELSE "not_found"

(* C22 as stated: a create under a parent that is not stored (payroll or   *)
(* bank under an organization, division or job under a payroll, employee   *)
(* under a division) fails with NotFound and inserts nothing.              *)
C22_MissingParentIsNotFound == OrphanCreatesRefused(AlwaysNotFound)

(* C22: a create under a parent that is not stored inserts nothing and     *)
(* fails: with NotFound, except that a payroll, bank or division create    *)
(* carrying a blank text fails with Validation, the texts being normalised *)
(* before the parent is looked up.                                         *)
C22_MissingParentIsRefused == OrphanCreatesRefused(TextsFirst)

C22_Witness ==
    /\ last.op = "payroll_create" /\ last.res = "not_found"
    /\ 1 \notin DOMAIN organizations
    /\ payrolls # Empty

(* C23: every employee in the list of a scope is stored with the division  *)
(* and the payroll of the scope, and an employee is in the list exactly    *)
(* when get of it under the same scope returns it.                         *)
C23_ListAgreesWithGet ==
    \A organization_id \in OrganizationIds, payroll_id \in PayrollIds,
       division_id \in DivisionIds, scan \in Scans(DOMAIN employees) :
        LET listed == EmployeeList(organization_id, payroll_id, division_id, scan) IN
        IsOk(listed) =>
            /\ \A employee \in Rows(listed.val) :
                  employee.division_id = division_id /\ employee.payroll_id = payroll_id
            /\ \A employee_id \in EmployeeIds :
                  LET got == EmployeeGet(organization_id, payroll_id, division_id, employee_id)
                  IN  (\E employee \in Rows(listed.val) : employee.id = employee_id)
                          <=> (IsOk(got) /\ IsSome(got.val))

(* A parent named by a division request that is not stored, or is stored   *)
(* under another payroll than the one the division is to belong to.        *)
BadParent(parent, payroll_id) ==
    /\ IsSome(parent)
    /\ \/ Unwrap(parent) \notin DOMAIN divisions
       \/ divisions[Unwrap(parent)].payroll_id # payroll_id

(* Updates of a division that supply one text together with a payroll, a   *)
(* parent, or both.                                                        *)
DivisionTextAndReference ==
    Enumerated(
    {params \in [name : Opt(NameInputs), description : Opt(TextInputs),
                 budget_code : Opt(TextInputs), payroll_id : Opt(PayrollIds),
                 parent_division_id : Opt(Opt(DivisionIds))] :
        /\ Cardinality({f \in {"name", "description", "budget_code"} : IsSome(params[f])}) = 1
        /\ IsSome(params.payroll_id) \/ IsSome(params.parent_division_id)})

(* C24: a division create or update that carries a blank text together     *)
(* with a payroll that is not stored, or a parent that is not stored or is *)
(* of another payroll, fails with Validation: the texts are normalised     *)
(* before any reference is looked up.                                      *)
C24_TextsBeforeReferences ==
    /\ \A params \in DivisionCreateInputs :
          /\ \E f \in {"name", "description", "budget_code"} : Blank(params[f])
          /\ \/ params.payroll_id \notin DOMAIN payrolls
             \/ BadParent(params.parent_division_id, params.payroll_id)
          => DivisionCreate(issued.division + 1, params).res.kind = "validation"
    /\ \A id \in DOMAIN divisions, params \in DivisionTextAndReference :
          /\ \E f \in {"name", "description", "budget_code"} :
                IsSome(params[f]) /\ Blank(Unwrap(params[f]))
          /\ \/ IsSome(params.payroll_id) /\ Unwrap(params.payroll_id) \notin DOMAIN payrolls
             \/ /\ IsSome(params.parent_division_id)
                /\ BadParent(Unwrap(params.parent_division_id),
                             UnwrapOr(params.payroll_id, divisions[id].payroll_id))
          => DivisionUpdate(id, params).res.kind = "validation"

(* The checks of an employee create, each taken by itself, in the order of *)
(* the create: division, job, bank, the texts, hours, termination date.    *)
EmployeeCreateChecks(organization_id, payroll_id, division_id, params) ==
    << IF IsSome(DivisionRepoFetch(division_id)) THEN Ok(TRUE)
       ELSE NotFound("division not found for payroll in organization"),
       EmployeeEnsureJobBelongs(organization_id, payroll_id, params.job_id),
       EmployeeEnsureBankBelongs(organization_id, params.bank_id),
       EmployeeNormalizeField(params.id_number, "id number"),
       EmployeeNormalizeField(params.last_name, "last name"),
       EmployeeNormalizeField(params.first_name, "first name"),
       EmployeeValidateHours(params.hours),
       EmployeeValidateTerminationDate(params.hire_date, params.termination_date) >>

Failing(checks) == {i \in DOMAIN checks : ~IsOk(checks[i])}

Earliest(S) == CHOOSE i \in S : \A j \in S : i <= j

(* C25: an employee create returns the error of the earliest of its checks *)
(* that fails (division, job, bank, texts, hours, termination date) and    *)
(* then inserts nothing; it inserts the employee only when all pass.       *)
C25_EarliestCheckDecides ==
    \A organization_id \in OrganizationIds, payroll_id \in PayrollIds,
       division_id \in DivisionIds, params \in EmployeeCreateInputs :
        LET id == issued.employee + 1
            r == EmployeeCreate(id, organization_id, payroll_id, division_id, params)
            checks == EmployeeCreateChecks(organization_id, payroll_id, division_id, params)
        IN  IF Failing(checks) # {}
            THEN r.res = checks[Earliest(Failing(checks))] /\ r.store = employees
            ELSE /\ IsOk(r.res)
                 /\ DOMAIN r.store = DOMAIN employees \cup {id}
                 /\ \A e \in DOMAIN employees : r.store[e] = employees[e]

(* The bank is stored under the other organization, the job and the        *)
(* division are in scope, and the create was refused for the bank.         *)
C25_Witness ==
    /\ last.op = "employee_create" /\ last.res = "not_found"
    /\ 1 \in DOMAIN banks /\ banks[1].organization_id = 2
    /\ last.msg = Message(EmployeeEnsureBankBelongs(1, 1))
    /\ IsOk(EmployeeEnsureJobBelongs(1, 1, 1))
    /\ 1 \in DOMAIN divisions

(* The checks that an employee update makes of the fields it supplies,     *)
(* other than those of job_id and bank_id.                                 *)
OwnFieldsValid(params, employee) ==
    /\ IsSome(params.termination_date) =>
          IsOk(EmployeeValidateTerminationDate(UnwrapOr(params.hire_date, employee.hire_date),
                                               Unwrap(params.termination_date)))
    /\ \A f \in {"id_number", "last_name", "first_name"} :
          IsSome(params[f]) => ~Blank(Unwrap(params[f]))
    /\ IsSome(params.hours) => IsOk(EmployeeValidateHours(Unwrap(params.hours)))

(* C26: an update of an employee found in its scope fails with NotFound,   *)
(* and changes nothing, when it supplies a job_id that is not a job of the *)
(* payroll or a bank_id that is not a bank of the organization; an update  *)
(* that supplies neither is never refused for a reference, and succeeds    *)
(* when its own fields are valid, whether the stored job and bank of the   *)
(* employee are still stored or not.                                       *)
C26_OnlySuppliedReferencesChecked ==
    \A organization_id \in OrganizationIds, payroll_id \in PayrollIds,
       division_id \in DivisionIds, employee_id \in DOMAIN employees :
        LET found == EmployeeGet(organization_id, payroll_id, division_id, employee_id) IN
        IsOk(found) /\ IsSome(found.val) =>
        \A params \in EmployeeUpdateInputs :
            LET r == EmployeeUpdate(organization_id, payroll_id, division_id, employee_id, params)
                job_out == /\ IsSome(params.job_id)
                           /\ \/ Unwrap(params.job_id) \notin DOMAIN jobs
                              \/ jobs[Unwrap(params.job_id)].payroll_id # payroll_id
                bank_out == /\ IsSome(params.bank_id)
                            /\ \/ Unwrap(params.bank_id) \notin DOMAIN banks
                               \/ banks[Unwrap(params.bank_id)].organization_id # organization_id
            IN  /\ job_out \/ bank_out => r.res.kind = "not_found" /\ r.store = employees
                /\ /\ IsNone(params.job_id) /\ IsNone(params.bank_id)
                   /\ Supplied(params) > 0
                   /\ OwnFieldsValid(params, employees[employee_id])
                   => /\ IsOk(r.res) /\ IsSome(r.res.val)
                      /\ r.store[employee_id].job_id = employees[employee_id].job_id
                      /\ r.store[employee_id].bank_id = employees[employee_id].bank_id

(* An employee whose job and bank are both gone has just been updated.     *)
C26_Witness ==
    /\ last.op = "employee_update" /\ last.res = "some"
    /\ last.id \in DOMAIN employees
    /\ employees[last.id].job_id \notin DOMAIN jobs
    /\ employees[last.id].bank_id \notin DOMAIN banks
    /\ employees[last.id].last_name # <<"a">>

WellFormedText(text) == text # <<>> /\ Trim(text) = text

WellFormedRows(store, texts) ==
    \A id \in DOMAIN store : \A f \in texts : WellFormedText(store[id][f])

WellFormedOrganizations(store) == WellFormedRows(store, {"name"})
WellFormedPayrolls(store) == WellFormedRows(store, {"name", "description"})
WellFormedDivisions(store) == WellFormedRows(store, {"name", "description", "budget_code"})
WellFormedJobs(store) ==
    WellFormedRows(store, {"job_title"}) /\ \A id \in DOMAIN store : store[id].salary > 0
WellFormedBanks(store) == WellFormedRows(store, {"name"})
WellFormedEmployees(store) ==
    /\ WellFormedRows(store, {"id_number", "last_name", "first_name"})
    /\ \A id \in DOMAIN store : store[id].hours >= 0

(* A create request carries a blank text, a salary that is not positive or *)
(* hours that are negative.                                                *)
InvalidCreate(params) ==
    \/ \E f \in DOMAIN params \cap TextFields : Blank(params[f])
    \/ "salary" \in DOMAIN params /\ params.salary <= 0
    \/ "hours" \in DOMAIN params /\ params.hours < 0

InvalidUpdate(params) ==
    \/ \E f \in DOMAIN params \cap TextFields : IsSome(params[f]) /\ Blank(Unwrap(params[f]))
    \/ "salary" \in DOMAIN params /\ IsSome(params.salary) /\ Unwrap(params.salary) <= 0
    \/ "hours" \in DOMAIN params /\ IsSome(params.hours) /\ Unwrap(params.hours) < 0

(* Every create and update request of the six services that carries an     *)
(* invalid field ends as Ends(result, store before) says.                  *)
InvalidRequests(Ends(_, _)) ==
    /\ \A params \in OrganizationCreateInputs :
          InvalidCreate(params) =>
              Ends(OrganizationCreate(issued.organization + 1, params), organizations)
    /\ \A id \in OrganizationIds, params \in OrganizationUpdateInputs :
          InvalidUpdate(params) => Ends(OrganizationUpdate(id, params), organizations)
    /\ \A organization_id \in OrganizationIds :
          /\ \A params \in PayrollCreateInputs :
                InvalidCreate(params) =>
                    Ends(PayrollCreate(issued.payroll + 1, organization_id, params), payrolls)
          /\ \A id \in PayrollIds, params \in PayrollUpdateInputs :
                InvalidUpdate(params) =>
                    Ends(PayrollUpdate(organization_id, id, params), payrolls)
          /\ \A params \in BankCreateInputs :
                InvalidCreate(params) =>
                    Ends(BankCreate(issued.bank + 1, organization_id, params), banks)
          /\ \A id \in BankIds, params \in BankUpdateInputs :
                InvalidUpdate(params) => Ends(BankUpdate(organization_id, id, params), banks)
          /\ \A payroll_id \in PayrollIds :
                /\ \A params \in JobCreateInputs :
                      InvalidCreate(params) =>
                          Ends(JobCreate(issued.job + 1, organization_id, payroll_id, params),
                               jobs)
                /\ \A id \in JobIds, params \in JobUpdateInputs :
                      InvalidUpdate(params) =>
                          Ends(JobUpdate(organization_id, payroll_id, id, params), jobs)
                /\ \A division_id \in DivisionIds :
                      /\ \A params \in EmployeeCreateInputs :
                            InvalidCreate(params) =>
                                Ends(EmployeeCreate(issued.employee + 1, organization_id,
                                                    payroll_id, division_id, params),
                                     employees)
                      /\ \A id \in EmployeeIds, params \in EmployeeUpdateInputs :
                            InvalidUpdate(params) =>
                                Ends(EmployeeUpdate(organization_id, payroll_id, division_id,
                                                    id, params), employees)
    /\ \A params \in DivisionCreateInputs :
          InvalidCreate(params) => Ends(DivisionCreate(issued.division + 1, params), divisions)
    /\ \A id \in DivisionIds, params \in DivisionUpdateInputs :
          InvalidUpdate(params) => Ends(DivisionUpdate(id, params), divisions)

(* Whatever request is made of the services that the specification sets up *)
(* plainly, the store it leaves holds valid fields only.                   *)
WritesAreWellFormed ==
    /\ \A params \in OrganizationCreateInputs :
          WellFormedOrganizations(OrganizationCreate(issued.organization + 1, params).store)
    /\ \A id \in OrganizationIds, params \in OrganizationUpdateInputs :
          WellFormedOrganizations(OrganizationUpdate(id, params).store)
    /\ \A organization_id \in OrganizationIds :
          /\ \A params \in PayrollCreateInputs :
                WellFormedPayrolls(
                    PayrollCreate(issued.payroll + 1, organization_id, params).store)
          /\ \A id \in PayrollIds, params \in PayrollUpdateInputs :
                WellFormedPayrolls(PayrollUpdate(organization_id, id, params).store)
          /\ \A params \in BankCreateInputs :
                WellFormedBanks(BankCreate(issued.bank + 1, organization_id, params).store)
          /\ \A id \in BankIds, params \in BankUpdateInputs :
                WellFormedBanks(BankUpdate(organization_id, id, params).store)
          /\ \A payroll_id \in PayrollIds :
                /\ \A params \in JobCreateInputs :
                      WellFormedJobs(JobCreate(issued.job + 1, organization_id, payroll_id,
                                               params).store)
                /\ \A id \in JobIds, params \in JobUpdateInputs :
                      WellFormedJobs(JobUpdate(organization_id, payroll_id, id, params).store)
    /\ \A params \in DivisionCreateInputs :
          params.parent_division_id # Some(issued.division + 1) =>
              WellFormedDivisions(DivisionCreate(issued.division + 1, params).store)
    /\ \A id \in DivisionIds, params \in DivisionUpdateInputs :
          WellFormedDivisions(DivisionUpdate(id, params).store)

StoresAreWellFormed ==
    /\ WellFormedOrganizations(organizations)
    /\ WellFormedPayrolls(payrolls)
    /\ WellFormedDivisions(divisions)
    /\ WellFormedJobs(jobs)
    /\ WellFormedBanks(banks)
    /\ WellFormedEmployees(employees)

IsValidation(r, store) == r.res.kind = "validation"

IsNoWrite(r, store) ==
    /\ r.store = store
    /\ r.res.kind \in {"validation", "not_found"} \/ r.res = Ok(None)

EveryRequest(Ends(_, _)) ==
    /\ \A params \in OrganizationCreateInputs :
          Ends(OrganizationCreate(issued.organization + 1, params), organizations)
    /\ \A id \in OrganizationIds :
          /\ Ends(OrganizationDelete(id), organizations)
          /\ \A params \in OrganizationUpdateInputs :
                Ends(OrganizationUpdate(id, params), organizations)
    /\ \A organization_id \in OrganizationIds :
          /\ \A params \in PayrollCreateInputs :
                Ends(PayrollCreate(issued.payroll + 1, organization_id, params), payrolls)
          /\ \A id \in PayrollIds :
                /\ Ends(PayrollDelete(organization_id, id), payrolls)
                /\ \A params \in PayrollUpdateInputs :
                      Ends(PayrollUpdate(organization_id, id, params), payrolls)
          /\ \A params \in BankCreateInputs :
                Ends(BankCreate(issued.bank + 1, organization_id, params), banks)
          /\ \A id \in BankIds :
                /\ Ends(BankDelete(organization_id, id), banks)
                /\ \A params \in BankUpdateInputs :
                      Ends(BankUpdate(organization_id, id, params), banks)
          /\ \A payroll_id \in PayrollIds :
                /\ \A params \in JobCreateInputs :
                      Ends(JobCreate(issued.job + 1, organization_id, payroll_id, params), jobs)
                /\ \A id \in JobIds :
                      /\ Ends(JobDelete(organization_id, payroll_id, id), jobs)
                      /\ \A params \in JobUpdateInputs :
                            Ends(JobUpdate(organization_id, payroll_id, id, params), jobs)
                /\ \A division_id \in DivisionIds :
                      /\ \A params \in EmployeeCreateInputs :
                            Ends(EmployeeCreate(issued.employee + 1, organization_id,
                                                payroll_id, division_id, params), employees)
                      /\ \A id \in EmployeeIds :
                            /\ Ends(EmployeeDelete(organization_id, payroll_id, division_id,
                                                   id), employees)
                            /\ \A params \in EmployeeUpdateInputs :
                                  Ends(EmployeeUpdate(organization_id, payroll_id,
                                                      division_id, id, params), employees)
    /\ \A params \in DivisionCreateInputs :
          params.parent_division_id # Some(issued.division + 1) =>
              Ends(DivisionCreate(issued.division + 1, params), divisions)
    /\ \A id \in DivisionIds :
          /\ Ends(DivisionDelete(id), divisions)
          /\ \A params \in DivisionUpdateInputs : Ends(DivisionUpdate(id, params), divisions)

ErrorWritesNothing(r, store) ==
    r.res.kind \in {"validation", "not_found"} => r.store = store

(* C29: every create, update and delete that can be requested of the six  *)
(* services, when it returns a Validation or NotFound error, hands back    *)
(* the store of its service as it was, the only store it could write.      *)
C29_ErrorLeavesStores == EveryRequest(ErrorWritesNothing)

(* An update of a stored employee has been refused for its termination     *)
(* date, after its reference checks had passed.                            *)
C29_Witness ==
    /\ last.op = "employee_update" /\ last.res = "validation"
    /\ last.msg = "termination date cannot be before hire date"
    /\ last.id \in DOMAIN employees

(* Over a step the row `id` goes from the store and every other row stays. *)
Removed(store, after, id) ==
    /\ id \in DOMAIN store
    /\ after = [i \in DOMAIN store \ {id} |-> store[i]]

Others(service) ==
    <<IF service = "organization" THEN 0 ELSE organizations,
      IF service = "payroll" THEN 0 ELSE payrolls,
      IF service = "division" THEN 0 ELSE divisions,
      IF service = "job" THEN 0 ELSE jobs,
      IF service = "bank" THEN 0 ELSE banks,
      IF service = "employee" THEN 0 ELSE employees>>

DeletedTrue(service) == last'.op = service \o "_delete" /\ last'.res = "true"

(* C30: a delete that returns true removes the addressed row from its      *)
(* store and changes no other row and no other store; after it, get of     *)
(* the id under a scope in which the delete returned true is absent, and   *)
(* a second delete there returns false.                                    *)
C30_DeleteRemovesOneRow ==
    [][\A id \in {last'.id} :
        /\ DeletedTrue("organization") =>
              /\ Removed(organizations, organizations', id)
              /\ UNCHANGED Others("organization")
              /\ OrganizationGet(id)' = Ok(None)
              /\ OrganizationDelete(id)'.res = Ok(FALSE)
        /\ DeletedTrue("payroll") =>
              /\ Removed(payrolls, payrolls', id)
              /\ UNCHANGED Others("payroll")
              /\ \A organization_id \in OrganizationIds :
                    PayrollDelete(organization_id, id).res = Ok(TRUE) =>
                        /\ PayrollGet(organization_id, id)' = Ok(None)
                        /\ PayrollDelete(organization_id, id)'.res = Ok(FALSE)
        /\ DeletedTrue("division") =>
              /\ Removed(divisions, divisions', id)
              /\ UNCHANGED Others("division")
              /\ DivisionGet(id)' = Ok(None)
              /\ DivisionDelete(id)'.res = Ok(FALSE)
        /\ DeletedTrue("job") =>
              /\ Removed(jobs, jobs', id)
              /\ UNCHANGED Others("job")
              /\ \A organization_id \in OrganizationIds, payroll_id \in PayrollIds :
                    JobDelete(organization_id, payroll_id, id).res = Ok(TRUE) =>
                        /\ JobGet(organization_id, payroll_id, id)' = Ok(None)
                        /\ JobDelete(organization_id, payroll_id, id)'.res = Ok(FALSE)
        /\ DeletedTrue("bank") =>
              /\ Removed(banks, banks', id)
              /\ UNCHANGED Others("bank")
              /\ \A organization_id \in OrganizationIds :
                    BankDelete(organization_id, id).res = Ok(TRUE) =>
                        /\ BankGet(organization_id, id)' = Ok(None)
                        /\ BankDelete(organization_id, id)'.res = Ok(FALSE)
        /\ DeletedTrue("employee") =>
              /\ Removed(employees, employees', id)
              /\ UNCHANGED Others("employee")
              /\ \A organization_id \in OrganizationIds, payroll_id \in PayrollIds,
                    division_id \in DivisionIds :
                    EmployeeDelete(organization_id, payroll_id, division_id, id).res = Ok(TRUE)
                    => /\ EmployeeGet(organization_id, payroll_id, division_id, id)' = Ok(None)
                       /\ EmployeeDelete(organization_id, payroll_id, division_id, id)'.res
                              = Ok(FALSE)]_vars

(* A payroll has been deleted from under its divisions and its job, which  *)
(* are still stored, and the other payroll is still stored.                *)
C30_Witness ==
    /\ last.op = "payroll_delete" /\ last.res = "true"
    /\ last.id \notin DOMAIN payrolls /\ payrolls # Empty
    /\ \E d \in DOMAIN divisions : divisions[d].payroll_id = last.id
    /\ \E j \in DOMAIN jobs : jobs[j].payroll_id = last.id
    /\ employees # Empty

(* Every request of the six services, as it ends in this state and as it   *)
(* ends in the next one, related by Ends(now, next, store now).            *)
OverTheStep(Ends(_, _, _)) ==
    /\ \A id \in OrganizationIds :
          /\ Ends(Done(OrganizationGet(id), organizations),
                  Done(OrganizationGet(id), organizations)', organizations)
          /\ Ends(OrganizationDelete(id), OrganizationDelete(id)', organizations)
          /\ \A params \in OrganizationUpdateInputs :
                Ends(OrganizationUpdate(id, params), OrganizationUpdate(id, params)',
                     organizations)
    /\ \A params \in OrganizationCreateInputs, id \in {issued.organization + 1} :
          Ends(OrganizationCreate(id, params), OrganizationCreate(id, params)', organizations)
    /\ \A organization_id \in OrganizationIds :
          /\ \A params \in PayrollCreateInputs, id \in {issued.payroll + 1} :
                Ends(PayrollCreate(id, organization_id, params),
                     PayrollCreate(id, organization_id, params)', payrolls)
          /\ \A id \in PayrollIds :
                /\ Ends(Done(PayrollGet(organization_id, id), payrolls),
                        Done(PayrollGet(organization_id, id), payrolls)', payrolls)
                /\ Ends(PayrollDelete(organization_id, id),
                        PayrollDelete(organization_id, id)', payrolls)
                /\ \A params \in PayrollUpdateInputs :
                      Ends(PayrollUpdate(organization_id, id, params),
                           PayrollUpdate(organization_id, id, params)', payrolls)
          /\ \A params \in BankCreateInputs, id \in {issued.bank + 1} :
                Ends(BankCreate(id, organization_id, params),
                     BankCreate(id, organization_id, params)', banks)
          /\ \A id \in BankIds :
                /\ Ends(Done(BankGet(organization_id, id), banks),
                        Done(BankGet(organization_id, id), banks)', banks)
                /\ Ends(BankDelete(organization_id, id), BankDelete(organization_id, id)',
                        banks)
                /\ \A params \in BankUpdateInputs :
                      Ends(BankUpdate(organization_id, id, params),
                           BankUpdate(organization_id, id, params)', banks)
          /\ \A payroll_id \in PayrollIds :
                /\ \A params \in JobCreateInputs, id \in {issued.job + 1} :
                      Ends(JobCreate(id, organization_id, payroll_id, params),
                           JobCreate(id, organization_id, payroll_id, params)', jobs)
                /\ \A id \in JobIds :
                      /\ Ends(Done(JobGet(organization_id, payroll_id, id), jobs),
                              Done(JobGet(organization_id, payroll_id, id), jobs)', jobs)
                      /\ Ends(JobDelete(organization_id, payroll_id, id),
                              JobDelete(organization_id, payroll_id, id)', jobs)
                      /\ \A params \in JobUpdateInputs :
                            Ends(JobUpdate(organization_id, payroll_id, id, params),
                                 JobUpdate(organization_id, payroll_id, id, params)', jobs)
                /\ \A division_id \in DivisionIds :
                      /\ \A params \in EmployeeSetup, id \in {issued.employee + 1} :
                            Ends(EmployeeCreate(id, organization_id, payroll_id, division_id,
                                                params),
                                 EmployeeCreate(id, organization_id, payroll_id, division_id,
                                                params)', employees)
                      /\ \A id \in EmployeeIds :
                            /\ Ends(Done(EmployeeGet(organization_id, payroll_id, division_id,
                                                     id), employees),
                                    Done(EmployeeGet(organization_id, payroll_id, division_id,
                                                     id), employees)', employees)
                            /\ Ends(EmployeeDelete(organization_id, payroll_id, division_id, id),
                                    EmployeeDelete(organization_id, payroll_id, division_id,
                                                   id)', employees)
                            /\ \A params \in EmployeeUpdateInputs :
                                  Ends(EmployeeUpdate(organization_id, payroll_id, division_id,
                                                      id, params),
                                       EmployeeUpdate(organization_id, payroll_id, division_id,
                                                      id, params)', employees)
    /\ \A params \in DivisionCreateInputs, id \in {issued.division + 1} :
          params.parent_division_id # Some(id) =>
              Ends(DivisionCreate(id, params), DivisionCreate(id, params)', divisions)
    /\ \A id \in DivisionIds :
          /\ Ends(Done(DivisionGet(id), divisions), Done(DivisionGet(id), divisions)',
                  divisions)
          /\ Ends(DivisionDelete(id), DivisionDelete(id)', divisions)
          /\ \A params \in DivisionUpdateInputs :
                Ends(DivisionUpdate(id, params), DivisionUpdate(id, params)', divisions)

(* With a repository failing, a request ends as it does without the        *)
(* failure, or it returns the error of the repository and writes nothing.  *)
SameOrTheError(healthy, faulted, store) ==
    \/ faulted = healthy
    \/ faulted = Done(Database("database error"), store)

(* With a repository failing, a request that would write to it returns the *)
(* error.                                                                  *)
WriteNeedsRepository(healthy, faulted, store) ==
    healthy.store # store /\ faulted.store = store => ~IsOk(faulted.res)

(* The error of a call that an employee or job operation makes first is    *)
(* the result of the operation.                                            *)
FirstCallDecides ==
    \A organization_id \in OrganizationIds, payroll_id \in PayrollIds :
        LET belongs == PayrollEnsureBelongsToOrganization(organization_id, payroll_id) IN
        /\ ~IsOk(PayrollGet(organization_id, payroll_id)) =>
              belongs = PayrollGet(organization_id, payroll_id)
        /\ ~IsOk(belongs) =>
              /\ \A id \in JobIds :
                    /\ JobGet(organization_id, payroll_id, id) = belongs
                    /\ JobDelete(organization_id, payroll_id, id) = Done(belongs, jobs)
              /\ \A division_id \in DivisionIds, id \in EmployeeIds :
                    /\ EmployeeGet(organization_id, payroll_id, division_id, id) = belongs
                    /\ EmployeeDelete(organization_id, payroll_id, division_id, id)
                           = Done(belongs, employees)
        /\ IsOk(belongs) =>
              \A division_id \in DivisionIds, id \in EmployeeIds :
                  /\ ~IsOk(DivisionGet(division_id)) =>
                        EmployeeGet(organization_id, payroll_id, division_id, id)
                            = DivisionGet(division_id)
                  /\ IsOk(DivisionGet(division_id)) /\ IsSome(DivisionGet(division_id).val)
                     /\ Fails("employee") =>
                        /\ EmployeeGet(organization_id, payroll_id, division_id, id)
                               = Database("database error")
                        /\ EmployeeDelete(organization_id, payroll_id, division_id, id)
                               = Done(Database("database error"), employees)

(* A fetched entity that is owned by another scope is reported as absent.  *)
MismatchIsAbsent ==
    /\ \A organization_id \in OrganizationIds, id \in DOMAIN payrolls :
          payrolls[id].organization_id # organization_id =>
              /\ PayrollGet(organization_id, id) = Ok(None)
              /\ PayrollDelete(organization_id, id) = Done(Ok(FALSE), payrolls)
    /\ \A organization_id \in OrganizationIds, id \in DOMAIN banks :
          banks[id].organization_id # organization_id =>
              /\ BankGet(organization_id, id) = Ok(None)
              /\ BankDelete(organization_id, id) = Done(Ok(FALSE), banks)
    /\ \A organization_id \in OrganizationIds, payroll_id \in PayrollIds, id \in DOMAIN jobs :
          /\ PayrollOwned(organization_id, payroll_id)
          /\ jobs[id].payroll_id # payroll_id
          => /\ JobGet(organization_id, payroll_id, id) = Ok(None)
             /\ JobDelete(organization_id, payroll_id, id) = Done(Ok(FALSE), jobs)
    /\ \A organization_id \in OrganizationIds, payroll_id \in PayrollIds :
          \A division_id \in DOMAIN divisions, id \in DOMAIN employees :
              /\ PayrollOwned(organization_id, payroll_id)
              /\ \/ employees[id].division_id # division_id
                 \/ employees[id].payroll_id # payroll_id
              => /\ EmployeeGet(organization_id, payroll_id, division_id, id) = Ok(None)
                 /\ EmployeeDelete(organization_id, payroll_id, division_id, id)
                        = Done(Ok(FALSE), employees)

(* C28: when a repository fails, every operation of the six services ends  *)
(* as it would have without the failure, or returns the error of the       *)
(* repository as it is and writes nothing; an operation that would write   *)
(* to the failing repository returns the error; the error of a payroll,    *)
(* division or employee call that a job or employee operation makes is the *)
(* result of that operation; and, with no repository failing, a payroll or *)
(* bank fetched under an organization that does not own it, a job fetched  *)
(* under a payroll that does not hold it and an employee fetched under a   *)
(* division or payroll that does not hold it are absent.                   *)
C28_ErrorsSurfaceUnchanged ==
    [][/\ down = {} /\ down' # {} =>
              /\ OverTheStep(SameOrTheError)
              /\ OverTheStep(WriteNeedsRepository)
              /\ FirstCallDecides'
       /\ down = {} => MismatchIsAbsent]_vars

(* The payroll repository fails and an employee that is stored was asked   *)
(* for: the error of the payroll service is what came back.                *)
C28_Witness ==
    /\ down = {"payroll"}
    /\ last.op = "employee_get" /\ last.res = "database"
    /\ employees # Empty

==============================================================================
